---- MODULE Spec2Model ----
(***************************************************************************)
(* Model of src/GV8.py: the Gherkin scanner GherkinChecker.process_file    *)
(* and the report model TestReport.                                        *)
(*                                                                         *)
(* Text is modelled character by character: a string is a sequence of      *)
(* one-character strings, and the regular expressions of                   *)
(* GherkinChecker.__init__ are operators computing what re.findall and     *)
(* re.sub compute on such sequences.                                       *)
(***************************************************************************)
EXTENDS Integers, Sequences, FiniteSets, TLC

(***************************************************************************)
(* Characters and Python's str helpers                                     *)
(***************************************************************************)
DQ == "\""
SQ == "'"

Whitespace == {" ", "\t", "\n"}

LowerLetters ==
  {"a","b","c","d","e","f","g","h","i","j","k","l","m",
   "n","o","p","q","r","s","t","u","v","w","x","y","z"}

UpperLetters ==
  {"A","B","C","D","E","F","G","H","I","J","K","L","M",
   "N","O","P","Q","R","S","T","U","V","W","X","Y","Z"}

Digits == {"0","1","2","3","4","5","6","7","8","9"}

\* the class \w of the word pattern
WordChars == LowerLetters \cup UpperLetters \cup Digits \cup {"_"}

\* str.lower() on one character
LowerChar(c) ==
  CASE c = "A" -> "a" [] c = "B" -> "b" [] c = "C" -> "c" [] c = "D" -> "d"
    [] c = "E" -> "e" [] c = "F" -> "f" [] c = "G" -> "g" [] c = "H" -> "h"
    [] c = "I" -> "i" [] c = "J" -> "j" [] c = "K" -> "k" [] c = "L" -> "l"
    [] c = "M" -> "m" [] c = "N" -> "n" [] c = "O" -> "o" [] c = "P" -> "p"
    [] c = "Q" -> "q" [] c = "R" -> "r" [] c = "S" -> "s" [] c = "T" -> "t"
    [] c = "U" -> "u" [] c = "V" -> "v" [] c = "W" -> "w" [] c = "X" -> "x"
    [] c = "Y" -> "y" [] c = "Z" -> "z" [] OTHER -> c

\* str.lower()
Lower(s) == [k \in 1..Len(s) |-> LowerChar(s[k])]

\* s[a..b] (1-based, inclusive), empty when a > b
Slice(s, a, b) == IF a > b THEN << >> ELSE SubSeq(s, a, b)

\* str.startswith(prefix)
StartsWith(s, prefix) ==
  /\ Len(s) >= Len(prefix)
  /\ \A k \in 1..Len(prefix) : s[k] = prefix[k]

\* number of leading / trailing characters of s that are in set cs
RECURSIVE LeadCount(_, _, _)
LeadCount(s, cs, k) ==
  IF k <= Len(s) /\ s[k] \in cs THEN LeadCount(s, cs, k + 1) ELSE k - 1

RECURSIVE TrailCount(_, _, _)
TrailCount(s, cs, k) ==
  IF k >= 1 /\ s[k] \in cs THEN TrailCount(s, cs, k - 1) ELSE Len(s) - k

\* str.strip(chars): drop every leading and trailing character in cs
StripChars(s, cs) ==
  LET a == LeadCount(s, cs, 1)
      b == TrailCount(s, cs, Len(s))
  IN  IF a >= Len(s) THEN << >> ELSE Slice(s, a + 1, Len(s) - b)

\* str.strip()
Strip(s) == StripChars(s, Whitespace)

\* position of the first occurrence of character c in s at or after p, 0 if none
RECURSIVE IndexFrom(_, _, _)
IndexFrom(s, c, p) ==
  IF p > Len(s) THEN 0
  ELSE IF s[p] = c THEN p ELSE IndexFrom(s, c, p + 1)

\* `sub in s` for strings
RECURSIVE ContainsFrom(_, _, _)
ContainsFrom(s, sub, p) ==
  IF p + Len(sub) - 1 > Len(s) THEN FALSE
  ELSE IF \A k \in 1..Len(sub) : s[p + k - 1] = sub[k] THEN TRUE
  ELSE ContainsFrom(s, sub, p + 1)

Contains(s, sub) == ContainsFrom(s, sub, 1)

\* the elements of a sequence
Range(s) == {s[k] : k \in DOMAIN s}

\* concatenation of a sequence of sequences (list.extend in a loop)
RECURSIVE Flatten(_)
Flatten(ss) == IF ss = << >> THEN << >> ELSE Head(ss) \o Flatten(Tail(ss))

\* the sequence s without repeated elements, first occurrences kept in order
RECURSIVE Dedup(_)
Dedup(s) ==
  IF s = << >> THEN << >>
  ELSE LET r == Dedup(SubSeq(s, 1, Len(s) - 1))
           x == s[Len(s)]
       IN  IF x \in Range(r) THEN r ELSE Append(r, x)

Reverse(s) == [k \in 1..Len(s) |-> s[Len(s) + 1 - k]]

Max(a, b) == IF a >= b THEN a ELSE b

(***************************************************************************)
(* The regular expressions of GherkinChecker.__init__.  A match is a pair  *)
(* <<first, last>> of positions; matches are found left to right and do    *)
(* not overlap, as re.findall and re.sub find them.                        *)
(***************************************************************************)

\* placeholder_pattern = <"[^"]+">
RECURSIVE PlaceholderSpans(_, _)
PlaceholderSpans(s, p) ==
  IF p + 4 > Len(s) THEN << >>
  ELSE IF s[p] = "<" /\ s[p + 1] = DQ
       THEN LET q == IndexFrom(s, DQ, p + 2)
            IN  IF q > p + 2 /\ q + 1 <= Len(s) /\ s[q + 1] = ">"
                THEN << <<p, q + 1>> >> \o PlaceholderSpans(s, q + 2)
                ELSE PlaceholderSpans(s, p + 1)
       ELSE PlaceholderSpans(s, p + 1)

\* a pattern  c[^c]*c  for a quote character c
RECURSIVE QuotedSpans(_, _, _)
QuotedSpans(s, c, p) ==
  IF p > Len(s) THEN << >>
  ELSE IF s[p] = c
       THEN LET q == IndexFrom(s, c, p + 1)
            IN  IF q > 0
                THEN << <<p, q>> >> \o QuotedSpans(s, c, q + 1)
                ELSE << >>
       ELSE QuotedSpans(s, c, p + 1)

\* fixed_value_pattern = "[^"]*"
FixedValueSpans(s) == QuotedSpans(s, DQ, 1)

\* bad_placeholder_pattern = '[^']*'
BadPlaceholderSpans(s) == QuotedSpans(s, SQ, 1)

\* word_pattern = \b\w+\b : the maximal runs of word characters
RECURSIVE WordSpans(_, _)
WordSpans(s, p) ==
  IF p > Len(s) THEN << >>
  ELSE IF s[p] \in WordChars
       THEN LET n == LeadCount(Slice(s, p, Len(s)), WordChars, 1)
            IN  << <<p, p + n - 1>> >> \o WordSpans(s, p + n)
       ELSE WordSpans(s, p + 1)

\* pattern.findall(s): the matched texts
Texts(s, spans) == [k \in 1..Len(spans) |-> SubSeq(s, spans[k][1], spans[k][2])]

\* position p lies inside one of the matches
InSpans(p, spans) ==
  \E k \in 1..Len(spans) : spans[k][1] <= p /\ p <= spans[k][2]

\* pattern.sub('', s): s without the matched texts
RECURSIVE DropSpans(_, _, _)
DropSpans(s, spans, p) ==
  IF p > Len(s) THEN << >>
  ELSE IF InSpans(p, spans)
       THEN DropSpans(s, spans, p + 1)
       ELSE <<s[p]>> \o DropSpans(s, spans, p + 1)

PlaceholderFindall(s) == Texts(s, PlaceholderSpans(s, 1))
PlaceholderSub(s) == DropSpans(s, PlaceholderSpans(s, 1), 1)
FixedValueSub(s) == DropSpans(s, FixedValueSpans(s), 1)
BadPlaceholderFindall(s) == Texts(s, BadPlaceholderSpans(s))
WordFindall(s) == Texts(s, WordSpans(s, 1))

\* str.replace("'", "")
RemoveSingleQuotes(s) == SelectSeq(s, LAMBDA c : c # SQ)

\* str.split('|'): the fields between the pipes
RECURSIVE SplitPipe(_, _)
SplitPipe(s, p) ==
  LET q == IndexFrom(s, "|", p)
  IN  IF q = 0 THEN << Slice(s, p, Len(s)) >>
      ELSE << Slice(s, p, q - 1) >> \o SplitPipe(s, q + 1)

(***************************************************************************)
(* Keywords                                                                *)
(***************************************************************************)
kwFeature == <<"F","e","a","t","u","r","e">>
kwScenario == <<"S","c","e","n","a","r","i","o">>
kwExamples == <<"E","x","a","m","p","l","e","s">>
kwGiven == <<"G","i","v","e","n">>
kwWhen == <<"W","h","e","n">>
kwThen == <<"T","h","e","n">>
kwAnd == <<"A","n","d">>
kwBut == <<"B","u","t">>
kwBackground == <<"B","a","c","k","g","r","o","u","n","d">>
kwScenarioOutline == kwScenario \o <<" ">> \o <<"O","u","t","l","i","n","e">>

\* the list of lines 379 and 399
KeywordList ==
  {kwFeature, kwScenario, kwGiven, kwWhen, kwThen, kwAnd, kwBut,
   kwBackground, kwExamples, kwScenarioOutline}

\* the tuple of line 328
StepKeywords == {kwGiven, kwWhen, kwThen, kwAnd, kwBut}

(***************************************************************************)
(* Issues.  A description is the f-string that builds it: its fixed text   *)
(* (fmt), the number formatted into it (n, 0 if none) and the text         *)
(* formatted into it (tok, empty if none).                                 *)
(***************************************************************************)
SyntaxError == "Syntax Error"
PlaceholderMismatch == "Placeholder Mismatch"
PlaceholderOrder == "Placeholder Order"
InvalidPlaceholderSyntax == "Invalid Placeholder Syntax"
RepeatedWord == "Repeated Word"
DuplicateScenario == "Duplicate Scenario"

IssueTypes ==
  {SyntaxError, PlaceholderMismatch, PlaceholderOrder,
   InvalidPlaceholderSyntax, RepeatedWord, DuplicateScenario}

Desc(fmt, n, tok) == [fmt |-> fmt, n |-> n, tok |-> tok]

MsgGivenCount(n) == Desc("Success Criteria must have exactly 1 Given, found {n}", n, << >>)
MsgWhenCount(n) == Desc("Success Criteria must have exactly 1 When, found {n}", n, << >>)
MsgScenarioBeforeFeature == Desc("Scenario found before Feature", 0, << >>)
MsgDuplicate(n) == Desc("Scenario identical to one at line {n}", n, << >>)
MsgExamplesOutside == Desc("Examples found outside a Scenario", 0, << >>)
MsgMismatch(ph) ==
  Desc("Placeholder '{ph}' does not match any column heading in the Examples table (case-sensitive)", 0, ph)
MsgOrder(ph) ==
  Desc("Placeholder '{ph}' used out of sequence relative to Examples table column headings", 0, ph)
MsgStepOutside == Desc("Step found outside a Scenario", 0, << >>)
MsgButDriveCycle == Desc("But not allowed in Drive Cycle format", 0, << >>)
MsgButSuccessCriteria == Desc("But not allowed in Success Criteria format", 0, << >>)
MsgWhenDriveCycle == Desc("When not allowed in Drive Cycle format", 0, << >>)
MsgThenDriveCycle == Desc("Then not allowed in Drive Cycle format", 0, << >>)
\* the example <"{bp_clean}"> of this message is bp without its quotes
MsgSingleQuotes(bp) ==
  Desc("Placeholder '{bp}' should use angle brackets with double quotes (e.g., <\"{bp_clean}\">) instead of single quotes", 0, bp)
MsgMissingClosing(bp) == Desc("Placeholder '{bp}' is missing a closing quote", 0, bp)
MsgMissingOpening(bp) == Desc("Placeholder '{bp}' is missing an opening quote", 0, bp)
MsgRepeated(w) == Desc("Word '{w}' repeated", 0, w)
MsgNoFeature == Desc("No Feature keyword found in file", 0, << >>)

\* "Drive Cycle" in description, for the descriptions of Syntax Error issues
MentionsDriveCycle(desc) ==
  desc.fmt \in {"But not allowed in Drive Cycle format",
                "When not allowed in Drive Cycle format",
                "Then not allowed in Drive Cycle format"}

\* "Success Criteria" in description, for the descriptions of Syntax Error issues
MentionsSuccessCriteria(desc) ==
  desc.fmt \in {"Success Criteria must have exactly 1 Given, found {n}",
                "Success Criteria must have exactly 1 When, found {n}",
                "But not allowed in Success Criteria format"}

\* the tuple (issue_type, description, line_num)
Issue(type, desc, line) == [type |-> type, desc |-> desc, line |-> line]

\* the tuple (word, line_num, suggestions)
Misspelling(word, line, suggestions) ==
  [word |-> word, line |-> line, suggestions |-> suggestions]

(***************************************************************************)
(* TestReport                                                              *)
(***************************************************************************)
CheckNames ==
  {"syntax", "misspelled", "placeholder_mismatch", "placeholder_order",
   "invalid_placeholder", "repeated_word", "drive_cycle", "success_criteria",
   "duplicate_scenario"}

FeatureTypes == {"standard", "drive_cycle", "success_criteria"}

DefaultChecks == [c \in CheckNames |-> TRUE]

\* TestReport.__init__; ts is the time of construction
NewReport(checks, ts) ==
  [issues |-> << >>,
   misspelled_words |-> << >>,
   stats |-> [total_lines |-> 0, scenarios |-> 0, steps |-> 0, total_iterations |-> 0],
   timestamp |-> ts,
   filename |-> "",
   feature_type |-> "standard",
   enabled_checks |-> checks]

add_issue(r, type, desc, line) ==
  [r EXCEPT !.issues = Append(@, Issue(type, desc, line))]

add_misspelled(r, word, line, suggestions) ==
  [r EXCEPT !.misspelled_words = Append(@, Misspelling(word, line, suggestions))]

update_stats(r, total_lines, scenarios, steps, total_iterations) ==
  [r EXCEPT !.stats = [total_lines |-> total_lines, scenarios |-> scenarios,
                       steps |-> steps, total_iterations |-> total_iterations]]

set_filename(r, filename) == [r EXCEPT !.filename = filename]

set_feature_type(r, ft) == [r EXCEPT !.feature_type = ft]

\* the list comprehensions over self.issues
OfType(r, type) == SelectSeq(r.issues, LAMBDA x : x.type = type)

DriveCycleErrors(r) ==
  SelectSeq(r.issues, LAMBDA x : x.type = SyntaxError /\ MentionsDriveCycle(x.desc))

SuccessCriteriaErrors(r) ==
  SelectSeq(r.issues, LAMBDA x : x.type = SyntaxError /\ MentionsSuccessCriteria(x.desc))

MisspelledTotalM(r) == Len(r.misspelled_words)

\* lines 99-100
MisspelledTotal(r) ==
  IF r.enabled_checks["misspelled"] THEN Len(r.misspelled_words) ELSE 0

DriveCycleTotalM(r) ==
  IF r.enabled_checks["drive_cycle"] THEN Len(DriveCycleErrors(r)) ELSE 0

\* lines 111-112
DriveCycleTotal(r) ==
  IF r.enabled_checks["drive_cycle"] /\ r.feature_type = "drive_cycle"
  THEN Len(DriveCycleErrors(r)) ELSE 0

\* lines 113-114
SuccessCriteriaTotal(r) ==
  IF r.enabled_checks["success_criteria"] /\ r.feature_type = "success_criteria"
  THEN Len(SuccessCriteriaErrors(r)) ELSE 0

\* one `if self.enabled_checks[check]: total += len([...])` of lines 101-116
TypeTotal(r, check, type) ==
  IF r.enabled_checks[check] THEN Len(OfType(r, type)) ELSE 0

get_total_errors(r) ==
  MisspelledTotal(r)
  + TypeTotal(r, "syntax", SyntaxError)
  + TypeTotal(r, "placeholder_mismatch", PlaceholderMismatch)
  + TypeTotal(r, "placeholder_order", PlaceholderOrder)
  + TypeTotal(r, "invalid_placeholder", InvalidPlaceholderSyntax)
  + TypeTotal(r, "repeated_word", RepeatedWord)
  + DriveCycleTotal(r)
  + SuccessCriteriaTotal(r)
  + TypeTotal(r, "duplicate_scenario", DuplicateScenario)

\* " - Line {i[2]}: {i[1]}"
IssueEntry(x) == [line |-> x.line, description |-> x.desc]

IssueEntries(list) == [k \in 1..Len(list) |-> IssueEntry(list[k])]

\* " - Line {ln}: '{w}' [Suggestions: ...]"
MisspelledEntries(r) ==
  [k \in 1..Len(r.misspelled_words) |->
     [word |-> r.misspelled_words[k].word,
      line |-> r.misspelled_words[k].line,
      suggestions |-> r.misspelled_words[k].suggestions]]

\* one section of the text report: its title, then " - None found" or its entries
Section(title, entries) ==
  [title |-> title, none_found |-> (entries = << >>), entries |-> entries]

\* a section that is written only `if cond`
SectionIf(cond, title, entries) ==
  IF cond THEN << Section(title, entries) >> ELSE << >>

MisspelledSectionM(r) ==
  SectionIf(TRUE, "Misspelled Words:", MisspelledEntries(r))

\* lines 127-131
MisspelledSection(r) ==
  SectionIf(r.enabled_checks["misspelled"], "Misspelled Words:", MisspelledEntries(r))

\* generate_report("text"): the header fields, the sections in order, the statistics
TextReport(r) ==
  [timestamp |-> r.timestamp,
   filename |-> r.filename,
   total_errors |-> get_total_errors(r),
   sections |->
     MisspelledSection(r)
     \o SectionIf(r.enabled_checks["syntax"], "Syntax Errors:",
                  IssueEntries(OfType(r, SyntaxError)))
     \o SectionIf(r.enabled_checks["placeholder_mismatch"], "Placeholder Mismatch Check:",
                  IssueEntries(OfType(r, PlaceholderMismatch)))
     \o SectionIf(r.enabled_checks["placeholder_order"], "Placeholder Order Check:",
                  IssueEntries(OfType(r, PlaceholderOrder)))
     \o SectionIf(r.enabled_checks["invalid_placeholder"], "Invalid Placeholder Syntax Check:",
                  IssueEntries(OfType(r, InvalidPlaceholderSyntax)))
     \o SectionIf(r.enabled_checks["repeated_word"], "Repeated Word Check:",
                  IssueEntries(OfType(r, RepeatedWord)))
     \o SectionIf(r.enabled_checks["drive_cycle"] /\ r.feature_type = "drive_cycle",
                  "Drive Cycle Format Check:", IssueEntries(DriveCycleErrors(r)))
     \o SectionIf(r.enabled_checks["success_criteria"] /\ r.feature_type = "success_criteria",
                  "Success Criteria Format Check:", IssueEntries(SuccessCriteriaErrors(r)))
     \o SectionIf(r.enabled_checks["duplicate_scenario"], "Duplicate Scenario Check:",
                  IssueEntries(OfType(r, DuplicateScenario))),
   stats |-> r.stats]

\* `[...] if cond else []` of the JSON report
ArrayIf(cond, entries) == IF cond THEN entries ELSE << >>

JsonMisspelledM(r) == MisspelledEntries(r)

\* line 202
JsonMisspelled(r) == ArrayIf(r.enabled_checks["misspelled"], MisspelledEntries(r))

\* generate_report("json")
JsonReport(r) ==
  [timestamp |-> r.timestamp,
   filename |-> r.filename,
   total_errors |-> get_total_errors(r),
   misspelled_words |-> JsonMisspelled(r),
   syntax_errors |->
     ArrayIf(r.enabled_checks["syntax"], IssueEntries(OfType(r, SyntaxError))),
   placeholder_mismatches |->
     ArrayIf(r.enabled_checks["placeholder_mismatch"], IssueEntries(OfType(r, PlaceholderMismatch))),
   placeholder_orders |->
     ArrayIf(r.enabled_checks["placeholder_order"], IssueEntries(OfType(r, PlaceholderOrder))),
   invalid_placeholders |->
     ArrayIf(r.enabled_checks["invalid_placeholder"], IssueEntries(OfType(r, InvalidPlaceholderSyntax))),
   repeated_words |->
     ArrayIf(r.enabled_checks["repeated_word"], IssueEntries(OfType(r, RepeatedWord))),
   drive_cycle_errors |->
     ArrayIf(r.enabled_checks["drive_cycle"] /\ r.feature_type = "drive_cycle",
             IssueEntries(DriveCycleErrors(r))),
   success_criteria_errors |->
     ArrayIf(r.enabled_checks["success_criteria"] /\ r.feature_type = "success_criteria",
             IssueEntries(SuccessCriteriaErrors(r))),
   duplicate_scenarios |->
     ArrayIf(r.enabled_checks["duplicate_scenario"], IssueEntries(OfType(r, DuplicateScenario))),
   stats |-> r.stats]

(***************************************************************************)
(* The spellcheck capability (enchant.Dict): check and suggest are pure    *)
(* functions of the word.                                                  *)
(***************************************************************************)
wThe == <<"t","h","e">>
wTeh == <<"t","e","h">>
wIs == <<"i","s">>
wUsed == <<"u","s","e","d">>
wRate == <<"r","a","t","e">>
wName == <<"n","a","m","e">>
wQzx == <<"q","z","x">>

\* the words the dictionary accepts
Dictionary ==
  {wThe, wIs, wUsed, wRate, wName,
   Lower(kwGiven), Lower(kwWhen), Lower(kwThen), Lower(kwAnd), Lower(kwBut),
   Lower(kwFeature), Lower(kwScenario), Lower(kwExamples),
   <<"o","u","t","l","i","n","e">>,
   <<"a">>, <<"b">>, <<"c">>, <<"f">>, <<"x">>, <<"y">>, <<"z">>, <<"5","0">>}

\* spellchecker.check(word)
SpellCheck(word) == word \in Dictionary

\* spellchecker.suggest(word): no suggestion is known for some words
SpellSuggest(word) ==
  IF word = wTeh THEN << wThe >>
  ELSE IF word = wQzx THEN << >>
  ELSE << Lower(kwThen), wThe >>

(***************************************************************************)
(* The order in which a Python set of strings is iterated: it follows the  *)
(* strings' hashes, which differ from process to process (str hashes are   *)
(* salted per process), and is the same for equal sets built the same way  *)
(* within one process.  `s` lists the elements in insertion order.         *)
(***************************************************************************)
SetIterationOrder(s, seed) ==
  LET d == Dedup(s)
      n == Len(d)
  IN  IF seed = 0 \/ n = 0 THEN d
      ELSE IF seed = 1 THEN Reverse(d)
      ELSE [k \in 1..n |-> d[((k + seed - 2) % n) + 1]]

(***************************************************************************)
(* GherkinChecker.process_file                                             *)
(***************************************************************************)
\* the local variables, lines 243-256; None is the empty sequence for
\* current_scenario and examples_headers, which the code only tests for truth
InitLocals ==
  [scenarios |-> 0, steps |-> 0, total_iterations |-> 0,
   scenario_dict |-> << >>, current_scenario |-> << >>, current_steps |-> << >>,
   in_examples |-> FALSE, examples_headers |-> << >>, scenario_start_line |-> 0,
   has_feature |-> FALSE,
   given_count |-> 0, when_count |-> 0, then_count |-> 0, and_count |-> 0]

\* a frame: the locals, the report and the shared spell cache
Frame(loc, report, cache) == [loc |-> loc, report |-> report, cache |-> cache]

\* dict[key] = value
DictPut(d, key, value) ==
  [k \in (DOMAIN d) \cup {key} |-> IF k = key THEN value ELSE d[k]]

GivenCheckM(r, loc) ==
  IF loc.given_count > 1
  THEN add_issue(r, SyntaxError, MsgGivenCount(loc.given_count), loc.scenario_start_line)
  ELSE r

\* lines 268-269 and 405-406
GivenCheck(r, loc) ==
  IF loc.given_count # 1
  THEN add_issue(r, SyntaxError, MsgGivenCount(loc.given_count), loc.scenario_start_line)
  ELSE r

\* lines 270-271 and 407-408
WhenCheck(r, loc) ==
  IF loc.when_count # 1
  THEN add_issue(r, SyntaxError, MsgWhenCount(loc.when_count), loc.scenario_start_line)
  ELSE r

\* lines 265-271 and 402-408
SuccessCriteriaCheck(r, loc, ft) ==
  IF loc.current_scenario # << >> /\ ft = "success_criteria"
  THEN WhenCheck(GivenCheck(r, loc), loc)
  ELSE r

DuplicateCheckM(F, line, i) ==
  IF line \in DOMAIN F.loc.scenario_dict
  THEN [F EXCEPT !.report = add_issue(@, DuplicateScenario,
                                      MsgDuplicate(F.loc.scenario_dict[line]), i),
                 !.loc.scenario_dict = DictPut(@, line, i)]
  ELSE [F EXCEPT !.loc.scenario_dict = DictPut(@, line, i)]

\* lines 276-280
DuplicateCheck(F, line, i) ==
  IF line \in DOMAIN F.loc.scenario_dict
  THEN [F EXCEPT !.report = add_issue(@, DuplicateScenario,
                                      MsgDuplicate(F.loc.scenario_dict[line]), i)]
  ELSE [F EXCEPT !.loc.scenario_dict = DictPut(@, line, i)]

ScenarioBranchStale(F, line, i, ft) ==
  LET r1 == SuccessCriteriaCheck(F.report, F.loc, ft)
      r2 == IF ~F.loc.has_feature
            THEN add_issue(r1, SyntaxError, MsgScenarioBeforeFeature, i)
            ELSE r1
      F3 == DuplicateCheck([F EXCEPT !.report = r2], line, i)
  IN  IF line \in DOMAIN F.loc.scenario_dict
      THEN [F3 EXCEPT !.loc.scenarios = @ + 1]
      ELSE [F3 EXCEPT !.loc.scenarios = @ + 1,
                      !.loc.current_scenario = line,
                      !.loc.current_steps = << >>,
                      !.loc.scenario_start_line = i,
                      !.loc.given_count = 0,
                      !.loc.when_count = 0,
                      !.loc.then_count = 0,
                      !.loc.and_count = 0,
                      !.loc.in_examples = FALSE,
                      !.loc.examples_headers = << >>]

ScenarioBranchM(F, line, i, ft) ==
  LET r1 == SuccessCriteriaCheck(F.report, F.loc, ft)
      r2 == IF F.loc.scenarios = 0
            THEN add_issue(r1, SyntaxError, MsgScenarioBeforeFeature, i)
            ELSE r1
      F3 == DuplicateCheck([F EXCEPT !.report = r2], line, i)
  IN  [F3 EXCEPT !.loc.scenarios = @ + 1,
                 !.loc.current_scenario = line,
                 !.loc.current_steps = << >>,
                 !.loc.scenario_start_line = i,
                 !.loc.given_count = 0,
                 !.loc.when_count = 0,
                 !.loc.then_count = 0,
                 !.loc.and_count = 0,
                 !.loc.in_examples = FALSE,
                 !.loc.examples_headers = << >>]

\* lines 265-289: a Scenario line
ScenarioBranch(F, line, i, ft) ==
  LET r1 == SuccessCriteriaCheck(F.report, F.loc, ft)
      r2 == IF ~F.loc.has_feature
            THEN add_issue(r1, SyntaxError, MsgScenarioBeforeFeature, i)
            ELSE r1
      F3 == DuplicateCheck([F EXCEPT !.report = r2], line, i)
  IN  [F3 EXCEPT !.loc.scenarios = @ + 1,
                 !.loc.current_scenario = line,
                 !.loc.current_steps = << >>,
                 !.loc.scenario_start_line = i,
                 !.loc.given_count = 0,
                 !.loc.when_count = 0,
                 !.loc.then_count = 0,
                 !.loc.and_count = 0,
                 !.loc.in_examples = FALSE,
                 !.loc.examples_headers = << >>]

\* lines 291-293: an Examples line
ExamplesBranch(F, i) ==
  LET r == IF F.loc.current_scenario = << >>
           THEN add_issue(F.report, SyntaxError, MsgExamplesOutside, i)
           ELSE F.report
  IN  [F EXCEPT !.report = r, !.loc.in_examples = TRUE]

\* line 296: [h.strip() for h in line.split('|')[1:-1]]
HeaderCells(line) ==
  LET parts == SplitPipe(line, 1)
      inner == Slice(parts, 2, Len(parts) - 1)
  IN  [k \in 1..Len(inner) |-> Strip(inner[k])]

\* lines 297-300
PlaceholdersUsed(steps) ==
  Flatten([k \in 1..Len(steps) |-> PlaceholderFindall(steps[k])])

\* lines 302, 314: ph.strip('<>').strip('"')
PlaceholderName(ph) == StripChars(StripChars(ph, {"<", ">"}), {DQ})

\* next((idx for idx, step in enumerate(current_steps) if ph in step), -1)
RECURSIVE StepIndexFrom(_, _, _)
StepIndexFrom(steps, ph, k) ==
  IF k > Len(steps) THEN -1
  ELSE IF Contains(steps[k], ph) THEN k - 1
  ELSE StepIndexFrom(steps, ph, k + 1)

StepIndex(steps, ph) == StepIndexFrom(steps, ph, 1)

\* step_index + scenario_start_line if step_index != -1 else i
PlaceholderLine(loc, ph, i) ==
  LET step_index == StepIndex(loc.current_steps, ph)
  IN  IF step_index # -1 THEN step_index + loc.scenario_start_line ELSE i

\* lines 301-309, for the placeholders phs in the order the set yields them
RECURSIVE MismatchLoop(_, _, _, _, _)
MismatchLoop(r, loc, headers, phs, i) ==
  IF phs = << >> THEN r
  ELSE LET ph == Head(phs)
           r1 == IF PlaceholderName(ph) \notin Range(headers)
                 THEN add_issue(r, PlaceholderMismatch, MsgMismatch(ph),
                                PlaceholderLine(loc, ph, i))
                 ELSE r
       IN  MismatchLoop(r1, loc, headers, Tail(phs), i)

\* line 311, 315: header_order.get(name, -1); a repeated heading keeps its
\* last column
HeaderOrder(headers, name) ==
  IF name \in Range(headers)
  THEN (CHOOSE k \in 1..Len(headers) :
          /\ headers[k] = name
          /\ \A j \in 1..Len(headers) : headers[j] = name => j <= k) - 1
  ELSE -1

OutOfOrderM(current_pos, last_pos) == current_pos <= last_pos

\* line 318
OutOfOrder(current_pos, last_pos) == current_pos < last_pos

NextLastPosM(current_pos, last_pos) == current_pos

\* line 325
NextLastPos(current_pos, last_pos) == Max(last_pos, current_pos)

\* lines 312-325
RECURSIVE OrderLoop(_, _, _, _, _, _)
OrderLoop(r, loc, headers, phs, last_pos, i) ==
  IF phs = << >> THEN r
  ELSE LET ph == Head(phs)
           current_pos == HeaderOrder(headers, PlaceholderName(ph))
       IN  IF current_pos = -1
           THEN OrderLoop(r, loc, headers, Tail(phs), last_pos, i)
           ELSE LET r1 == IF OutOfOrder(current_pos, last_pos)
                          THEN add_issue(r, PlaceholderOrder, MsgOrder(ph),
                                         PlaceholderLine(loc, ph, i))
                          ELSE r
                IN  OrderLoop(r1, loc, headers, Tail(phs),
                              NextLastPos(current_pos, last_pos), i)

\* lines 295-327: a table row in the Examples sub-state
TableRowBranch(F, line, i, seed) ==
  IF F.loc.examples_headers = << >>
  THEN LET headers == HeaderCells(line)
           used == PlaceholdersUsed(F.loc.current_steps)
           r1 == MismatchLoop(F.report, F.loc, headers,
                              SetIterationOrder(used, seed), i)
           r2 == OrderLoop(r1, F.loc, headers, used, -1, i)
       IN  [F EXCEPT !.loc.examples_headers = headers, !.report = r2]
  ELSE [F EXCEPT !.loc.total_iterations = @ + 1]

StepBranchM(F, line, i, ft) ==
  LET loc == F.loc
      r1 == IF loc.current_scenario = << >>
            THEN add_issue(F.report, SyntaxError, MsgStepOutside, i)
            ELSE F.report
      r2 == IF StartsWith(line, kwGiven) \/ StartsWith(line, kwWhen)
               \/ StartsWith(line, kwThen) \/ StartsWith(line, kwAnd)
            THEN r1
            ELSE IF ft = "drive_cycle"
                 THEN add_issue(r1, SyntaxError, MsgButDriveCycle, i)
                 ELSE IF ft = "success_criteria"
                      THEN add_issue(r1, SyntaxError, MsgButSuccessCriteria, i)
                      ELSE r1
  IN  [F EXCEPT !.report = r2,
                !.loc.steps = IF loc.in_examples THEN @ ELSE @ + 1,
                !.loc.current_steps =
                   IF loc.current_scenario # << >> /\ ~loc.in_examples
                   THEN Append(@, line) ELSE @,
                !.loc.given_count = IF StartsWith(line, kwGiven) THEN @ + 1 ELSE @,
                !.loc.when_count = IF StartsWith(line, kwWhen) THEN @ + 1 ELSE @,
                !.loc.then_count = IF StartsWith(line, kwThen) THEN @ + 1 ELSE @,
                !.loc.and_count = IF StartsWith(line, kwAnd) THEN @ + 1 ELSE @]

\* lines 329-350: a step line
StepBranch(F, line, i, ft) ==
  LET loc == F.loc
      r1 == IF loc.current_scenario = << >>
            THEN add_issue(F.report, SyntaxError, MsgStepOutside, i)
            ELSE F.report
      r2 == IF StartsWith(line, kwGiven) \/ StartsWith(line, kwWhen)
               \/ StartsWith(line, kwThen) \/ StartsWith(line, kwAnd)
            THEN r1
            ELSE IF ft = "drive_cycle"
                 THEN add_issue(r1, SyntaxError, MsgButDriveCycle, i)
                 ELSE IF ft = "success_criteria"
                      THEN add_issue(r1, SyntaxError, MsgButSuccessCriteria, i)
                      ELSE r1
  IN  [F EXCEPT !.report = r2,
                !.loc.steps = @ + 1,
                !.loc.current_steps =
                   IF loc.current_scenario # << >> /\ ~loc.in_examples
                   THEN Append(@, line) ELSE @,
                !.loc.given_count = IF StartsWith(line, kwGiven) THEN @ + 1 ELSE @,
                !.loc.when_count = IF StartsWith(line, kwWhen) THEN @ + 1 ELSE @,
                !.loc.then_count = IF StartsWith(line, kwThen) THEN @ + 1 ELSE @,
                !.loc.and_count = IF StartsWith(line, kwAnd) THEN @ + 1 ELSE @]

IsStepLine(line) == \E k \in StepKeywords : StartsWith(line, k)

ClassifyM(F, line, i, ft, seed) ==
  IF StartsWith(line, kwFeature) THEN [F EXCEPT !.loc.has_feature = TRUE]
  ELSE IF StartsWith(line, kwScenario) THEN ScenarioBranch(F, line, i, ft)
  ELSE IF StartsWith(line, kwExamples) THEN ExamplesBranch(F, i)
  ELSE IF StartsWith(line, <<"|">>) THEN TableRowBranch(F, line, i, seed)
  ELSE IF IsStepLine(line) THEN StepBranch(F, line, i, ft)
  ELSE F

\* lines 262-350: the if/elif chain on the kind of line
Classify(F, line, i, ft, seed) ==
  IF StartsWith(line, kwFeature) THEN [F EXCEPT !.loc.has_feature = TRUE]
  ELSE IF StartsWith(line, kwScenario) THEN ScenarioBranch(F, line, i, ft)
  ELSE IF StartsWith(line, kwExamples) THEN ExamplesBranch(F, i)
  ELSE IF F.loc.in_examples /\ StartsWith(line, <<"|">>) THEN TableRowBranch(F, line, i, seed)
  ELSE IF IsStepLine(line) THEN StepBranch(F, line, i, ft)
  ELSE F

\* lines 352-357
DriveCycleBoundary(F, line, i, n, ft) ==
  LET loc == F.loc
  IN  IF /\ (i = n \/ (StartsWith(line, kwScenario) /\ loc.current_scenario # << >>))
         /\ loc.current_scenario # << >>
         /\ ft = "drive_cycle"
      THEN LET r1 == IF loc.when_count > 0
                     THEN add_issue(F.report, SyntaxError, MsgWhenDriveCycle,
                                    loc.scenario_start_line)
                     ELSE F.report
               r2 == IF loc.then_count > 0
                     THEN add_issue(r1, SyntaxError, MsgThenDriveCycle,
                                    loc.scenario_start_line)
                     ELSE r1
           IN  [F EXCEPT !.report = r2]
      ELSE F

\* lines 361-371, for one match bp
BadPlaceholderIssue(r, bp, i) ==
  IF Head(bp) = SQ /\ bp[Len(bp)] = SQ
  THEN add_issue(r, InvalidPlaceholderSyntax, MsgSingleQuotes(bp), i)
  ELSE IF Head(bp) = SQ /\ bp[Len(bp)] # SQ
       THEN add_issue(r, InvalidPlaceholderSyntax, MsgMissingClosing(bp), i)
       ELSE IF bp[Len(bp)] = SQ /\ Head(bp) # SQ
            THEN add_issue(r, InvalidPlaceholderSyntax, MsgMissingOpening(bp), i)
            ELSE r

RECURSIVE BadPlaceholderLoop(_, _, _)
BadPlaceholderLoop(r, bps, i) ==
  IF bps = << >> THEN r
  ELSE BadPlaceholderLoop(BadPlaceholderIssue(r, Head(bps), i), Tail(bps), i)

\* lines 359-371
BadPlaceholders(F, line, i) ==
  [F EXCEPT !.report = BadPlaceholderLoop(@, BadPlaceholderFindall(line), i)]

\* lines 374-379: the words of the masked line, lower case, keywords left out
WordsToCheck(line) ==
  LET cleaned == RemoveSingleQuotes(FixedValueSub(PlaceholderSub(line)))
      words == SelectSeq(WordFindall(cleaned), LAMBDA w : w \notin KeywordList)
  IN  [k \in 1..Len(words) |-> Lower(words[k])]

\* lines 381-391: one word, under the spell lock
SpellWord(F, word, i, custom) ==
  IF word \in DOMAIN F.cache
  THEN IF F.cache[word] # << >>
       THEN [F EXCEPT !.report = add_misspelled(@, word, i, F.cache[word])]
       ELSE F
  ELSE IF word \notin custom
       THEN IF ~SpellCheck(word)
            THEN [F EXCEPT !.report = add_misspelled(@, word, i, SpellSuggest(word)),
                           !.cache = DictPut(@, word, SpellSuggest(word))]
            ELSE [F EXCEPT !.cache = DictPut(@, word, << >>)]
       ELSE F

RECURSIVE SpellLoop(_, _, _, _)
SpellLoop(F, words, i, custom) ==
  IF words = << >> THEN F
  ELSE SpellLoop(SpellWord(F, Head(words), i, custom), Tail(words), i, custom)

\* lines 373-391
Spellcheck(F, line, i, chk, custom, seed) ==
  IF chk.spellcheck_enabled /\ chk.has_spellchecker /\ ~StartsWith(line, <<"#">>)
  THEN SpellLoop(F, SetIterationOrder(WordsToCheck(line), seed), i, custom)
  ELSE F

\* lines 398-400
RECURSIVE RepeatedLoop(_, _, _, _)
RepeatedLoop(r, words, j, i) ==
  IF j > Len(words) - 1 THEN r
  ELSE LET r1 == IF words[j] = words[j + 1] /\ words[j] \notin KeywordList
                 THEN add_issue(r, RepeatedWord, MsgRepeated(words[j]), i)
                 ELSE r
       IN  RepeatedLoop(r1, words, j + 1, i)

RepeatedWordsM(F, line, i) ==
  [F EXCEPT !.report =
     RepeatedLoop(@, WordFindall(FixedValueSub(PlaceholderSub(line))), 1, i)]

\* lines 393-400
RepeatedWords(F, line, i) ==
  IF ~(F.loc.in_examples /\ StartsWith(line, <<"|">>))
  THEN [F EXCEPT !.report =
          RepeatedLoop(@, WordFindall(FixedValueSub(PlaceholderSub(line))), 1, i)]
  ELSE F

\* lines 258-400: one iteration of the loop, on line number i of n
LoopBody(F, raw, i, n, chk, custom, seed) ==
  LET line == Strip(raw)
  IN  IF line = << >> \/ StartsWith(line, <<"#">>) THEN F
      ELSE LET F1 == Classify(F, line, i, chk.feature_type, seed)
               F2 == DriveCycleBoundary(F1, line, i, n, chk.feature_type)
               F3 == BadPlaceholders(F2, line, i)
               F4 == Spellcheck(F3, line, i, chk, custom, seed)
           IN  RepeatedWords(F4, line, i)

NoFeatureCheckM(r, loc) ==
  IF loc.scenarios = 0 THEN add_issue(r, SyntaxError, MsgNoFeature, 1) ELSE r

\* lines 410-411
NoFeatureCheck(r, loc) ==
  IF ~loc.has_feature THEN add_issue(r, SyntaxError, MsgNoFeature, 1) ELSE r

FileName == "file.feature"

\* lines 402-413: after the loop
AfterLoop(r, loc, n, ft) ==
  LET r1 == SuccessCriteriaCheck(r, loc, ft)
      r2 == NoFeatureCheck(r1, loc)
      r3 == update_stats(r2, n, loc.scenarios, loc.steps, loc.total_iterations)
  IN  set_filename(r3, FileName)

(***************************************************************************)
(* Input lines.  Each is given with the text it stands for.                *)
(***************************************************************************)
\* Feature: f
lnFeature == <<"F","e","a","t","u","r","e",":"," ","f">>
\*   Feature: f
lnFeatureIndented == <<" "," ","F","e","a","t","u","r","e",":"," ","f">>
\* # Feature
lnCommentFeature == <<"#"," ","F","e","a","t","u","r","e">>
\* (an empty line)
lnBlank == << >>
\* Scenario: a
lnScenarioA == <<"S","c","e","n","a","r","i","o",":"," ","a">>
\*   Scenario: a 
lnScenarioAPadded == <<" "," ","S","c","e","n","a","r","i","o",":"," ","a"," ">>
\* Scenario: b
lnScenarioB == <<"S","c","e","n","a","r","i","o",":"," ","b">>
\* Given x
lnGiven == <<"G","i","v","e","n"," ","x">>
\* When y
lnWhen == <<"W","h","e","n"," ","y">>
\* Then z
lnThen == <<"T","h","e","n"," ","z">>
\* But x
lnBut == <<"B","u","t"," ","x">>
\* Examples:
lnExamples == <<"E","x","a","m","p","l","e","s",":">>
\* | A | B | C |
lnHeaderABC == <<"|"," ","A"," ","|"," ","B"," ","|"," ","C"," ","|">>
\* | B | A |
lnHeaderBA == <<"|"," ","B"," ","|"," ","A"," ","|">>
\* | A | B | A |
lnHeaderABA == <<"|"," ","A"," ","|"," ","B"," ","|"," ","A"," ","|">>
\* | 1 | 2 |
lnRow == <<"|"," ","1"," ","|"," ","2"," ","|">>
\* Given <"B"> is <"A">
lnStepBA == <<"G","i","v","e","n"," ","<",DQ,"B",DQ,">"," ","i","s"," ","<",DQ,"A",DQ,">">>
\* When <"A"> is used
lnStepA == <<"W","h","e","n"," ","<",DQ,"A",DQ,">"," ","i","s"," ","u","s","e","d">>
\* Given <"A"> <"B"> <"C">
lnStepABC == <<"G","i","v","e","n"," ","<",DQ,"A",DQ,">"," ","<",DQ,"B",DQ,">"," ","<",DQ,"C",DQ,">">>
\* Then <"C"> is <"X">
lnStepCX == <<"T","h","e","n"," ","<",DQ,"C",DQ,">"," ","i","s"," ","<",DQ,"X",DQ,">">>
\* And <"B">
lnStepB == <<"A","n","d"," ","<",DQ,"B",DQ,">">>
\* Given '<name>' is used
lnSingleQuoted == <<"G","i","v","e","n"," ",SQ,"<","n","a","m","e",">",SQ," ","i","s"," ","u","s","e","d">>
\* Given 'name is used
lnUnclosedQuote == <<"G","i","v","e","n"," ",SQ,"n","a","m","e"," ","i","s"," ","u","s","e","d">>
\* Given <"rate"> is "50"
lnRateFifty == <<"G","i","v","e","n"," ","<",DQ,"r","a","t","e",DQ,">"," ","i","s"," ",DQ,"5","0",DQ>>
\* Then "the 'rate'" is used
lnQuoteInLiteral == <<"T","h","e","n"," ",DQ,"t","h","e"," ",SQ,"r","a","t","e",SQ,DQ," ","i","s"," ","u","s","e","d">>
\* Given teh qzx
lnMisspelled == <<"G","i","v","e","n"," ","t","e","h"," ","q","z","x">>
\* When teh teh is used
lnMisspelledTwice == <<"W","h","e","n"," ","t","e","h"," ","t","e","h"," ","i","s"," ","u","s","e","d">>
\* Then <"teh"> is "qzx qzx"
lnLiteralMisspelled == <<"T","h","e","n"," ","<",DQ,"t","e","h",DQ,">"," ","i","s"," ",DQ,"q","z","x"," ","q","z","x",DQ>>
\* | teh teh | qzx |
lnRowWords == <<"|"," ","t","e","h"," ","t","e","h"," ","|"," ","q","z","x"," ","|">>
\* Then Then The the the the
lnKeywordRepeated == <<"T","h","e","n"," ","T","h","e","n"," ","T","h","e"," ","t","h","e"," ","t","h","e"," ","t","h","e">>
\* Given the the rate
lnRepeated == <<"G","i","v","e","n"," ","t","h","e"," ","t","h","e"," ","r","a","t","e">>

\* the lines the documents of Spec are made of
StructureLines ==
  {lnFeature, lnBlank, lnScenarioA, lnScenarioB, lnGiven, lnWhen}

\* the longest document of Spec
MaxLines == 4

\* the lines the documents of SpecTitles are made of
TitleLines ==
  {lnFeature, lnFeatureIndented, lnCommentFeature,
   lnScenarioA, lnScenarioAPadded, lnScenarioB, lnGiven}

\* the longest document of SpecTitles
MaxTitleLines == 3

\* every sequence over S of length at most n
SeqsUpTo(S, n) == UNION {[1..k -> S] : k \in 0..n}

(***************************************************************************)
(* State                                                                   *)
(***************************************************************************)
VARIABLES
  lines,        \* the file's lines, as f.readlines() returns them
  pc,           \* where process_file is: "idle", "scan", "done" ("report": no scan)
  i,            \* the loop counter of line 258
  loc,          \* process_file's local variables
  report,       \* the TestReport passed to process_file
  checker,      \* the GherkinChecker's configuration
  spell_cache,  \* the shared spell cache, word -> suggestions
  custom_words, \* the custom-word set
  hash_seed,    \* the process's string hash seed
  reports,      \* run_checks' list of the reports of the scans that succeeded
  enabled_checks, \* the application's check selection, GherkinCheckerApp.enabled_checks
  output,       \* what the last call of generate_report gave its caller
  files,        \* the files run_checks was called with
  file_idx,     \* how many of them run_checks has dealt with
  threads,      \* the concurrent scans inside the spellcheck loop
  spell_lock,   \* the thread that holds the spell lock, 0 if none
  calls,        \* how often check and suggest were called, per word
  app_custom_words, \* the application's self.custom_words (line 436)
  gui           \* the GUI thread, its callback queue and the executor's task

\* the state of the application around one scan
appVars ==
  <<enabled_checks, output, files, file_idx, threads, spell_lock, calls, app_custom_words, gui>>

vars ==
  <<lines, pc, i, loc, report, checker, spell_cache, custom_words, hash_seed, reports,
    enabled_checks, output, files, file_idx, threads, spell_lock, calls, app_custom_words, gui>>

\* no report generated yet
NoOutput == [kind |-> "none"]

\* no window: a checker used on its own
NoGui == [pc |-> "none"]

\* no batch of files, no concurrent scan: one scan on its own
AppIdle ==
  /\ output = NoOutput
  /\ files = << >>
  /\ file_idx = 0
  /\ threads = << >>
  /\ spell_lock = 0
  /\ calls = << >>
  /\ app_custom_words = {}
  /\ gui = NoGui

\* GherkinChecker.__init__, lines 219-224
Checker(ft, enabled, has) ==
  [feature_type |-> ft, spellcheck_enabled |-> enabled, has_spellchecker |-> has]

SpellOff == Checker("standard", FALSE, FALSE)

\* the state after a checker and a report have been constructed for a file
InitWith(docs, fts, spell, seeds, checks) ==
  /\ lines \in docs
  /\ pc = "idle"
  /\ i = 0
  /\ loc = InitLocals
  /\ \E c \in checks : report = NewReport(c, 0) /\ enabled_checks = c
  /\ \E ft \in fts, sp \in spell : checker = Checker(ft, sp, sp)
  /\ spell_cache = << >>
  /\ custom_words = {}
  /\ hash_seed \in seeds
  /\ reports = << >>
  /\ AppIdle

Init ==
  InitWith(SeqsUpTo(StructureLines, MaxLines), FeatureTypes, {FALSE}, {0}, {DefaultChecks})

\* lines 232-256: process_file up to the loop
Start ==
  /\ pc = "idle"
  /\ report' = set_feature_type(report, checker.feature_type)
  /\ loc' = InitLocals
  /\ i' = 1
  /\ pc' = "scan"
  /\ UNCHANGED <<lines, checker, spell_cache, custom_words, hash_seed, reports, appVars>>

\* lines 258-400: one iteration of the loop
ScanLine ==
  /\ pc = "scan"
  /\ i <= Len(lines)
  /\ LET F == LoopBody(Frame(loc, report, spell_cache), lines[i], i, Len(lines),
                       checker, custom_words, hash_seed)
     IN  /\ loc' = F.loc
         /\ report' = F.report
         /\ spell_cache' = F.cache
  /\ i' = i + 1
  /\ UNCHANGED <<lines, pc, checker, custom_words, hash_seed, reports, appVars>>

\* lines 402-414: the checks after the loop, the statistics, return True
Finish ==
  /\ pc = "scan"
  /\ i > Len(lines)
  /\ report' = AfterLoop(report, loc, Len(lines), checker.feature_type)
  /\ reports' = Append(reports, report')
  /\ pc' = "done"
  /\ UNCHANGED <<lines, i, loc, checker, spell_cache, custom_words, hash_seed, appVars>>

Next == Start \/ ScanLine \/ Finish

Spec == Init /\ [][Next]_vars

\* documents of Feature, comment and Scenario lines, some indented
InitTitles ==
  InitWith(SeqsUpTo(TitleLines, MaxTitleLines), FeatureTypes, {FALSE}, {0}, {DefaultChecks})

SpecTitles == InitTitles /\ [][Next]_vars

(***************************************************************************)
(* The document, read independently of the scanner                         *)
(***************************************************************************)
Trimmed(k) == Strip(lines[k])

IsScenarioLine(k) == StartsWith(Trimmed(k), kwScenario)

IsFeatureLine(k) == StartsWith(Trimmed(k), kwFeature)

\* the loop has finished line k
Processed(k) == pc = "done" \/ (pc = "scan" /\ k < i)

\* the line after the scenario that starts at line s: the next Scenario line,
\* or the line after the last one
ScenarioEnd(s) ==
  IF \E k \in (s + 1)..Len(lines) : IsScenarioLine(k)
  THEN CHOOSE k \in (s + 1)..Len(lines) :
         IsScenarioLine(k) /\ \A j \in (s + 1)..(k - 1) : ~IsScenarioLine(j)
  ELSE Len(lines) + 1

\* the lines of the scenario at s that start with keyword kw
StepsOfKind(s, kw) ==
  {k \in (s + 1)..(ScenarioEnd(s) - 1) : StartsWith(Trimmed(k), kw)}

\* how many issues of the report equal x
CountIssue(x) == Cardinality({k \in DOMAIN report.issues : report.issues[k] = x})

\* how many issues have this type and fixed text
CountFmt(type, fmt) ==
  Cardinality({k \in DOMAIN report.issues :
                 report.issues[k].type = type /\ report.issues[k].desc.fmt = fmt})

\* how many issues have this type and fixed text at this line
CountFmtAt(type, fmt, line) ==
  Cardinality({k \in DOMAIN report.issues :
                 /\ report.issues[k].type = type
                 /\ report.issues[k].desc.fmt = fmt
                 /\ report.issues[k].line = line})

(***************************************************************************)
(* C1: with feature type drive_cycle, after the scan every scenario that   *)
(* contains at least one When step has exactly one issue "When not allowed *)
(* in Drive Cycle format" at its start line, wherever the scenario sits.   *)
(***************************************************************************)
C1_WhenIssuePerScenario ==
  (pc = "done" /\ checker.feature_type = "drive_cycle") =>
    \A s \in 1..Len(lines) :
      (IsScenarioLine(s) /\ StepsOfKind(s, kwWhen) # {}) =>
        CountIssue(Issue(SyntaxError, MsgWhenDriveCycle, s)) = 1

Evaluated(s) ==
  \/ pc = "done"
  \/ pc = "scan" /\ ScenarioEnd(s) <= Len(lines) /\ Processed(ScenarioEnd(s))

CountRule(s, kw, fmt) ==
  LET N == Cardinality(StepsOfKind(s, kw))
  IN  /\ CountFmtAt(SyntaxError, fmt, s) = IF Evaluated(s) /\ N # 1 THEN 1 ELSE 0
      /\ CountIssue(Issue(SyntaxError, Desc(fmt, N, << >>), s)) = CountFmtAt(SyntaxError, fmt, s)

(***************************************************************************)
(* C2: with feature type success_criteria, a scenario has been evaluated   *)
(* exactly when its boundary (the next Scenario line, or the end of the    *)
(* document) has been passed; an evaluated scenario has one issue          *)
(* "exactly 1 Given, found N" at its start line iff its Given count N is   *)
(* not 1, and one "exactly 1 When, found M" iff its When count M is not 1; *)
(* there are no other such issues.                                         *)
(***************************************************************************)
C2_SuccessCriteriaCounts ==
  checker.feature_type = "success_criteria" =>
    /\ \A s \in 1..Len(lines) :
         IsScenarioLine(s) =>
           /\ CountRule(s, kwGiven, MsgGivenCount(0).fmt)
           /\ CountRule(s, kwWhen, MsgWhenCount(0).fmt)
    /\ \A k \in DOMAIN report.issues :
         report.issues[k].desc.fmt \in {MsgGivenCount(0).fmt, MsgWhenCount(0).fmt} =>
           /\ report.issues[k].line \in 1..Len(lines)
           /\ IsScenarioLine(report.issues[k].line)

\* a scenario with two Given and one When has been evaluated: one Given issue,
\* no When issue
C2_Witness ==
  /\ pc = "done"
  /\ checker.feature_type = "success_criteria"
  /\ \E s \in 1..Len(lines) :
       /\ IsScenarioLine(s)
       /\ Cardinality(StepsOfKind(s, kwGiven)) = 2
       /\ Cardinality(StepsOfKind(s, kwWhen)) = 1
       /\ CountIssue(Issue(SyntaxError, MsgGivenCount(2), s)) = 1
       /\ CountFmtAt(SyntaxError, MsgWhenCount(0).fmt, s) = 0

HasFeatureLine == \E k \in 1..Len(lines) : IsFeatureLine(k)

(***************************************************************************)
(* C3: after the scan the report holds exactly one issue "No Feature       *)
(* keyword found in file", at line 1, if no line of the document starts    *)
(* with Feature (after trimming), and none if some line does; the issue is *)
(* not reported before the end of the scan.                                *)
(***************************************************************************)
C3_NoFeatureIssue ==
  /\ CountFmt(SyntaxError, MsgNoFeature.fmt) =
       IF pc = "done" /\ ~HasFeatureLine THEN 1 ELSE 0
  /\ CountIssue(Issue(SyntaxError, MsgNoFeature, 1)) = CountFmt(SyntaxError, MsgNoFeature.fmt)

\* a document with scenarios and steps but no Feature line has been scanned
C3_Witness ==
  /\ pc = "done"
  /\ ~HasFeatureLine
  /\ \E k \in 1..Len(lines) : IsScenarioLine(k)
  /\ \E k \in 1..Len(lines) : StartsWith(Trimmed(k), kwGiven)
  /\ CountIssue(Issue(SyntaxError, MsgNoFeature, 1)) = 1

FirstWithTitle(t) ==
  CHOOSE k \in 1..Len(lines) :
    /\ IsScenarioLine(k) /\ Trimmed(k) = t
    /\ \A j \in 1..(k - 1) : ~(IsScenarioLine(j) /\ Trimmed(j) = t)

TitlesSeen == {Trimmed(k) : k \in {j \in 1..Len(lines) : IsScenarioLine(j) /\ Processed(j)}}

(***************************************************************************)
(* C4: the first Scenario line with a given trimmed text has no Duplicate  *)
(* Scenario issue; each later Scenario line with that text has exactly one,*)
(* at its own line, naming the line of the first; and throughout the scan  *)
(* the duplicate index maps each title seen so far to its first line.      *)
(***************************************************************************)
C4_DuplicateScenarios ==
  pc \in {"scan", "done"} =>
    /\ \A k \in 1..Len(lines) :
         LET n == CountFmtAt(DuplicateScenario, MsgDuplicate(0).fmt, k)
             first == FirstWithTitle(Trimmed(k))
         IN  IF IsScenarioLine(k) /\ Processed(k) /\ first # k
             THEN n = 1 /\ CountIssue(Issue(DuplicateScenario, MsgDuplicate(first), k)) = 1
             ELSE n = 0
    /\ DOMAIN loc.scenario_dict = TitlesSeen
    /\ \A t \in TitlesSeen : loc.scenario_dict[t] = FirstWithTitle(t)

\* a title has occurred three times, the second time with other surrounding
\* white space
C4_Witness ==
  /\ pc = "done"
  /\ \E a, b, c \in 1..Len(lines) :
       /\ a < b /\ b < c
       /\ lines[a] = lnScenarioA /\ lines[b] = lnScenarioAPadded /\ lines[c] = lnScenarioA
       /\ CountIssue(Issue(DuplicateScenario, MsgDuplicate(a), c)) = 1

(***************************************************************************)
(* Scenarios with placeholders and an Examples table                       *)
(***************************************************************************)
PlaceholderSteps == {lnStepBA, lnStepA, lnStepABC, lnStepCX, lnStepB}

HeaderRows == {lnHeaderABC, lnHeaderBA, lnHeaderABA}

\* the most steps of a scenario of SpecPlaceholders
MaxSteps == 3

\* how many string hash seeds (processes) are told apart
NumHashSeeds == 2

\* Feature, Scenario, steps, Examples, the header row, one data row
PlaceholderDocs ==
  {<<lnFeature, lnScenarioA>> \o steps \o <<lnExamples, hdr, lnRow>> :
     steps \in SeqsUpTo(PlaceholderSteps, MaxSteps), hdr \in HeaderRows}

InitPlaceholders ==
  InitWith(PlaceholderDocs, {"standard"}, {FALSE}, 0..(NumHashSeeds - 1), {DefaultChecks})

SpecPlaceholders == InitPlaceholders /\ [][Next]_vars

\* this step handles a table row while no header row is held
CapturesHeader ==
  /\ pc = "scan" /\ i <= Len(lines)
  /\ loc.in_examples
  /\ StartsWith(Trimmed(i), <<"|">>)
  /\ loc.examples_headers = << >>

\* the 0-based column of the heading called name, -1 if there is none
ColumnOf(headers, name) ==
  IF \E k \in 1..Len(headers) : headers[k] = name
  THEN (CHOOSE k \in 1..Len(headers) :
          headers[k] = name /\ \A j \in (k + 1)..Len(headers) : headers[j] # name) - 1
  ELSE -1

\* the bare name inside <"name">
BareName(ph) == SubSeq(ph, 3, Len(ph) - 2)

\* the tokens of `uses` that are out of order with respect to `headers`
ExpectedOrderTokens(uses, headers) ==
  LET col(k) == ColumnOf(headers, BareName(uses[k]))
      flagged(k) == /\ col(k) # -1
                    /\ \E j \in 1..(k - 1) : col(j) # -1 /\ col(k) < col(j)
      RECURSIVE pick(_)
      pick(k) == IF k > Len(uses) THEN << >>
                 ELSE IF flagged(k) THEN <<uses[k]>> \o pick(k + 1)
                 ELSE pick(k + 1)
  IN  pick(1)

\* the tokens named by the Placeholder Order issues of a list of issues
OrderTokens(issues) ==
  LET sel == SelectSeq(issues, LAMBDA x : x.type = PlaceholderOrder)
  IN  [k \in 1..Len(sel) |-> sel[k].desc.tok]

(***************************************************************************)
(* C5: when the header row of a scenario's Examples table is captured, the *)
(* Placeholder Order issues added are, in order, those for the valid       *)
(* placeholder tokens of the buffered steps (in order of use, repeats      *)
(* kept) whose heading has a lower column index than some earlier token    *)
(* with a known heading; a token with an unknown heading is skipped and    *)
(* plays no part.  (The column of a heading that occurs twice is its last  *)
(* column.)                                                                *)
(***************************************************************************)
C5_PlaceholderOrder ==
  [][CapturesHeader =>
       OrderTokens(SubSeq(report'.issues, Len(report.issues) + 1, Len(report'.issues)))
         = ExpectedOrderTokens(PlaceholdersUsed(loc.current_steps), loc'.examples_headers)]_vars

\* headers A, B, C were captured for a scenario that uses B then A: one issue,
\* for A
C5_Witness ==
  /\ loc.examples_headers = << <<"A">>, <<"B">>, <<"C">> >>
  /\ PlaceholdersUsed(loc.current_steps) = << <<"<", DQ, "B", DQ, ">">>, <<"<", DQ, "A", DQ, ">">> >>
  /\ OrderTokens(report.issues) = << <<"<", DQ, "A", DQ, ">">> >>

\* headers A, B, C were captured for a scenario that uses A, B, C and then an
\* unknown X: no issue
C5_WitnessInOrder ==
  /\ loc.examples_headers = << <<"A">>, <<"B">>, <<"C">> >>
  /\ loc.current_steps = <<lnStepABC, lnStepCX>>
  /\ OrderTokens(report.issues) = << >>

(***************************************************************************)
(* Lines with quotes, literals and misspellings                            *)
(***************************************************************************)
LexicalLines ==
  {lnSingleQuoted, lnUnclosedQuote, lnRateFifty, lnQuoteInLiteral,
   lnMisspelled, lnMisspelledTwice, lnLiteralMisspelled, lnRepeated}

\* the longest document of SpecLexical and SpecTwice
MaxLexicalLines == 2

InitLexical ==
  InitWith(SeqsUpTo(LexicalLines, MaxLexicalLines), {"standard"}, {TRUE}, {0}, {DefaultChecks})

SpecLexical == InitLexical /\ [][Next]_vars

\* the number of single quotes in s
QuoteCount(s) == Cardinality({k \in 1..Len(s) : s[k] = SQ})

\* some issue of this type and fixed text is reported at this line
HasFmtAt(type, fmt, line) == CountFmtAt(type, fmt, line) > 0

(***************************************************************************)
(* C6: a line with a single-quoted span that lacks one of its quotes gets  *)
(* an Invalid Placeholder Syntax issue saying "missing a closing quote" or *)
(* "missing an opening quote"; and the line  Given '<name>' is used  gets  *)
(* one saying "missing a closing quote".                                   *)
(***************************************************************************)
C6_MissingQuoteReported ==
  \A k \in 1..Len(lines) :
    Processed(k) =>
      /\ QuoteCount(Trimmed(k)) % 2 = 1 =>
           \/ HasFmtAt(InvalidPlaceholderSyntax, MsgMissingClosing(<< >>).fmt, k)
           \/ HasFmtAt(InvalidPlaceholderSyntax, MsgMissingOpening(<< >>).fmt, k)
      /\ lines[k] = lnSingleQuoted =>
           HasFmtAt(InvalidPlaceholderSyntax, MsgMissingClosing(<< >>).fmt, k)

\* the positions of line s inside a valid placeholder or a double-quoted literal
Masked(s, p) == InSpans(p, PlaceholderSpans(s, 1)) \/ InSpans(p, FixedValueSpans(s))

\* the words of s outside placeholders and literals
OpenWords(s) ==
  LET spans == WordSpans(s, 1)
  IN  {SubSeq(s, spans[k][1], spans[k][2]) :
         k \in {j \in 1..Len(spans) : ~Masked(s, spans[j][1])}}

\* the single-quoted spans of s that lie inside a placeholder or a literal
MaskedQuotedTexts(s) ==
  LET spans == BadPlaceholderSpans(s)
  IN  {SubSeq(s, spans[k][1], spans[k][2]) :
         k \in {j \in 1..Len(spans) : Masked(s, spans[j][1]) /\ Masked(s, spans[j][2])}}

(***************************************************************************)
(* C7: text inside a valid placeholder or inside a double-quoted literal   *)
(* is never reported: no Misspelling and no Repeated Word issue names a    *)
(* word that the line has only inside such tokens, and no Invalid          *)
(* Placeholder Syntax issue names a single-quoted span lying inside one.   *)
(***************************************************************************)
C7_MaskedTextExempt ==
  \A k \in 1..Len(lines) :
    Processed(k) =>
      /\ \A m \in DOMAIN report.misspelled_words :
           report.misspelled_words[m].line = k =>
             report.misspelled_words[m].word \in {Lower(w) : w \in OpenWords(Trimmed(k))}
      /\ \A m \in DOMAIN report.issues :
           (report.issues[m].line = k /\ report.issues[m].type = RepeatedWord) =>
             report.issues[m].desc.tok \in OpenWords(Trimmed(k))
      /\ \A m \in DOMAIN report.issues :
           (report.issues[m].line = k /\ report.issues[m].type = InvalidPlaceholderSyntax) =>
             report.issues[m].desc.tok \notin MaskedQuotedTexts(Trimmed(k))

(***************************************************************************)
(* The report model on its own: a report built by its mutators             *)
(***************************************************************************)
SampleIssues ==
  {Issue(SyntaxError, MsgStepOutside, 1),
   Issue(SyntaxError, MsgWhenDriveCycle, 2),
   Issue(SyntaxError, MsgGivenCount(2), 3),
   Issue(PlaceholderMismatch, MsgMismatch(<<"<", DQ, "X", DQ, ">">>), 4),
   Issue(PlaceholderOrder, MsgOrder(<<"<", DQ, "A", DQ, ">">>), 5),
   Issue(InvalidPlaceholderSyntax, MsgSingleQuotes(<<SQ, "a", SQ>>), 6),
   Issue(RepeatedWord, MsgRepeated(wThe), 7),
   Issue(DuplicateScenario, MsgDuplicate(1), 8)}

SampleMisspellings == {Misspelling(wTeh, 1, << wThe >>)}

\* the most issues and misspellings of a report of SpecReport, together
MaxEntries == 2

InitReport ==
  /\ lines = << >>
  /\ pc = "report"
  /\ i = 0
  /\ loc = InitLocals
  /\ \E c \in [CheckNames -> BOOLEAN] : report = NewReport(c, 0) /\ enabled_checks = c
  /\ checker = SpellOff
  /\ spell_cache = << >>
  /\ custom_words = {}
  /\ hash_seed = 0
  /\ reports = << >>
  /\ AppIdle

ReportHasRoom ==
  /\ pc = "report"
  /\ Len(report.issues) + Len(report.misspelled_words) < MaxEntries

\* TestReport.add_issue
AddIssue ==
  /\ ReportHasRoom
  /\ \E x \in SampleIssues : report' = add_issue(report, x.type, x.desc, x.line)
  /\ UNCHANGED <<lines, pc, i, loc, checker, spell_cache, custom_words, hash_seed, reports, appVars>>

\* TestReport.add_misspelled
AddMisspelled ==
  /\ ReportHasRoom
  /\ \E x \in SampleMisspellings :
       report' = add_misspelled(report, x.word, x.line, x.suggestions)
  /\ UNCHANGED <<lines, pc, i, loc, checker, spell_cache, custom_words, hash_seed, reports, appVars>>

\* TestReport.set_feature_type
SetFeatureType ==
  /\ pc = "report"
  /\ \E ft \in FeatureTypes : report' = set_feature_type(report, ft)
  /\ UNCHANGED <<lines, pc, i, loc, checker, spell_cache, custom_words, hash_seed, reports, appVars>>

NextReport == AddIssue \/ AddMisspelled \/ SetFeatureType

SpecReport == InitReport /\ [][NextReport]_vars

(***************************************************************************)
(* C8: when the misspelled check is disabled, the text report has no       *)
(* "Misspelled Words:" section, the JSON report's misspelled_words is      *)
(* empty, and get_total_errors() is what it would be without any           *)
(* misspelling, whatever add_misspelled recorded.                          *)
(***************************************************************************)
C8_MisspelledDisabled ==
  ~report.enabled_checks["misspelled"] =>
    /\ \A k \in DOMAIN TextReport(report).sections :
         TextReport(report).sections[k].title # "Misspelled Words:"
    /\ JsonReport(report).misspelled_words = << >>
    /\ TextReport(report).total_errors
         = get_total_errors([report EXCEPT !.misspelled_words = << >>])
    /\ JsonReport(report).total_errors
         = get_total_errors([report EXCEPT !.misspelled_words = << >>])

\* the check is disabled and a misspelling has been recorded, beside an issue
C8_Witness ==
  /\ pc = "report"
  /\ ~report.enabled_checks["misspelled"]
  /\ Len(report.misspelled_words) > 0
  /\ Len(report.issues) > 0
  /\ report.enabled_checks["syntax"]

\* issue x belongs to the category of check c, in a report of feature type ft
InCategory(x, c, ft) ==
  \/ c = "syntax" /\ x.type = SyntaxError
  \/ c = "placeholder_mismatch" /\ x.type = PlaceholderMismatch
  \/ c = "placeholder_order" /\ x.type = PlaceholderOrder
  \/ c = "invalid_placeholder" /\ x.type = InvalidPlaceholderSyntax
  \/ c = "repeated_word" /\ x.type = RepeatedWord
  \/ c = "duplicate_scenario" /\ x.type = DuplicateScenario
  \/ /\ c = "drive_cycle" /\ ft = "drive_cycle" /\ x.type = SyntaxError
     /\ x.desc.fmt \in {MsgButDriveCycle.fmt, MsgWhenDriveCycle.fmt, MsgThenDriveCycle.fmt}
  \/ /\ c = "success_criteria" /\ ft = "success_criteria" /\ x.type = SyntaxError
     /\ x.desc.fmt \in {MsgButSuccessCriteria.fmt, MsgGivenCount(0).fmt, MsgWhenCount(0).fmt}

Contribution(c) ==
  IF ~report.enabled_checks[c] THEN 0
  ELSE IF c = "misspelled" THEN Cardinality(DOMAIN report.misspelled_words)
  ELSE Cardinality({k \in DOMAIN report.issues :
                      InCategory(report.issues[k], c, report.feature_type)})

RECURSIVE SumContributions(_)
SumContributions(cs) ==
  IF cs = {} THEN 0
  ELSE LET c == CHOOSE x \in cs : TRUE
       IN  Contribution(c) + SumContributions(cs \ {c})

(***************************************************************************)
(* C9: get_total_errors() is the sum, over the enabled checks, of the      *)
(* number of entries of the check's category; the drive_cycle and          *)
(* success_criteria categories are empty unless the report's feature type  *)
(* is that variant; a disabled check contributes 0.                        *)
(***************************************************************************)
C9_TotalIsSumOfEnabled ==
  pc = "report" => get_total_errors(report) = SumContributions(CheckNames)

\* a standard report holds a Drive Cycle syntax error with the drive_cycle check
\* enabled, and an issue of a disabled check
C9_Witness ==
  /\ pc = "report"
  /\ report.feature_type = "standard"
  /\ report.enabled_checks["drive_cycle"]
  /\ report.enabled_checks["syntax"]
  /\ ~report.enabled_checks["duplicate_scenario"]
  /\ Len(DriveCycleErrors(report)) = 1
  /\ Len(OfType(report, DuplicateScenario)) = 1
  /\ get_total_errors(report) = 1

(***************************************************************************)
(* The same document scanned again                                         *)
(***************************************************************************)
\* how many times the document is scanned in SpecTwice
MaxScans == 2

InitTwice ==
  InitWith(SeqsUpTo(LexicalLines, MaxLexicalLines) \cup PlaceholderDocs,
           {"standard"}, {TRUE}, 0..(NumHashSeeds - 1), {DefaultChecks})

\* the application is run again on the same file, with the same settings and an
\* empty spell cache: in the same process or in a new one
RunAgain ==
  /\ pc = "done"
  /\ Len(reports) < MaxScans
  /\ hash_seed' \in 0..(NumHashSeeds - 1)
  /\ report' = NewReport(report.enabled_checks, report.timestamp + 1)
  /\ spell_cache' = << >>
  /\ loc' = InitLocals
  /\ i' = 0
  /\ pc' = "idle"
  /\ UNCHANGED <<lines, checker, custom_words, reports, appVars>>

NextTwice == Next \/ RunAgain

SpecTwice == InitTwice /\ [][NextTwice]_vars

(***************************************************************************)
(* C10: two scans of the same document with the same settings, each from   *)
(* an empty spell cache, give reports with the same issues, the same       *)
(* misspellings in the same order and the same statistics, so the same     *)
(* text report but for the timestamp.                                      *)
(***************************************************************************)
C10_SameReportTwice ==
  Len(reports) >= 2 =>
    /\ reports[1].issues = reports[2].issues
    /\ reports[1].misspelled_words = reports[2].misspelled_words
    /\ reports[1].stats = reports[2].stats
    /\ TextReport([reports[1] EXCEPT !.timestamp = 0])
         = TextReport([reports[2] EXCEPT !.timestamp = 0])

(***************************************************************************)
(* The two formats of one report, side by side                             *)
(***************************************************************************)
\* the category arrays of the JSON report and the titles of the text sections
\* that list the same category
CategorySections ==
  << <<"misspelled_words", "Misspelled Words:">>,
     <<"syntax_errors", "Syntax Errors:">>,
     <<"placeholder_mismatches", "Placeholder Mismatch Check:">>,
     <<"placeholder_orders", "Placeholder Order Check:">>,
     <<"invalid_placeholders", "Invalid Placeholder Syntax Check:">>,
     <<"repeated_words", "Repeated Word Check:">>,
     <<"drive_cycle_errors", "Drive Cycle Format Check:">>,
     <<"success_criteria_errors", "Success Criteria Format Check:">>,
     <<"duplicate_scenarios", "Duplicate Scenario Check:">> >>

\* the sections of the text report that carry this title
SectionsTitled(r, title) ==
  SelectSeq(TextReport(r).sections, LAMBDA sec : sec.title = title)

\* what an entry says: its line and its description (the word, for a misspelling)
EntryPair(e) ==
  <<e.line, IF "description" \in DOMAIN e THEN e.description ELSE e.word>>

EntryPairs(entries) == [k \in 1..Len(entries) |-> EntryPair(entries[k])]

(***************************************************************************)
(* C11: for every report and check selection, each category array of the   *)
(* JSON report lists the same (line, description) pairs, in the same       *)
(* order, as the matching section of the text report; the array is empty   *)
(* exactly when that section is left out or says "None found"; and         *)
(* total_errors is the same in both formats.                               *)
(***************************************************************************)
C11_JsonMatchesText ==
  pc = "report" =>
    LET json == JsonReport(report)
        text == TextReport(report)
    IN  /\ \A k \in DOMAIN CategorySections :
             LET array == json[CategorySections[k][1]]
                 secs == SelectSeq(text.sections,
                                   LAMBDA sec : sec.title = CategorySections[k][2])
             IN  /\ Len(secs) <= 1
                 /\ EntryPairs(array)
                      = IF secs = << >> THEN << >> ELSE EntryPairs(secs[1].entries)
                 /\ (array = << >>) <=> (secs = << >> \/ secs[1].none_found)
        /\ json.total_errors = text.total_errors

\* a report holds a misspelling whose check is disabled, a syntax error whose
\* check is enabled, and no repeated word though that check is enabled
C11_Witness ==
  /\ pc = "report"
  /\ ~report.enabled_checks["misspelled"]
  /\ Len(report.misspelled_words) = 1
  /\ report.enabled_checks["syntax"]
  /\ Len(OfType(report, SyntaxError)) = 1
  /\ report.enabled_checks["repeated_word"]
  /\ JsonReport(report).syntax_errors # << >>
  /\ SectionsTitled(report, "Repeated Word Check:")[1].none_found

(***************************************************************************)
(* generate_report called by name of format                                *)
(***************************************************************************)
\* the formats generate_report is called with: the two it knows and one other
Formats == {"text", "json", "xml"}

generate_reportM(r, format) ==
  IF format = "json"
  THEN [kind |-> "json", format |-> format, content |-> JsonReport(r)]
  ELSE [kind |-> "text", format |-> format, content |-> TextReport(r)]

\* lines 119-214: what the caller gets, the returned value or the exception
generate_report(r, format) ==
  IF format = "text"
  THEN [kind |-> "text", format |-> format, content |-> TextReport(r)]
  ELSE IF format = "json"
  THEN [kind |-> "json", format |-> format, content |-> JsonReport(r)]
  ELSE [kind |-> "ValueError", format |-> format]

\* a caller serializes the report: while it is being filled, or after its scan
GenerateReport ==
  /\ pc \in {"report", "done"}
  /\ \E format \in Formats : output' = generate_report(report, format)
  /\ UNCHANGED <<lines, pc, i, loc, report, checker, spell_cache, custom_words,
                 hash_seed, reports, enabled_checks, files, file_idx, threads,
                 spell_lock, calls, app_custom_words, gui>>

\* the check selections of the reports of SpecFormat
FormatChecks == {DefaultChecks, [c \in CheckNames |-> c # "misspelled"]}

InitFormat ==
  /\ lines = << >>
  /\ pc = "report"
  /\ i = 0
  /\ loc = InitLocals
  /\ \E c \in FormatChecks : report = NewReport(c, 0) /\ enabled_checks = c
  /\ checker = SpellOff
  /\ spell_cache = << >>
  /\ custom_words = {}
  /\ hash_seed = 0
  /\ reports = << >>
  /\ AppIdle

NextFormat == AddIssue \/ AddMisspelled \/ SetFeatureType \/ GenerateReport

SpecFormat == InitFormat /\ [][NextFormat]_vars

(***************************************************************************)
(* C12: generate_report with a format other than "text" and "json" raises  *)
(* ValueError (and with one of these two it does not), and a call of       *)
(* generate_report leaves the report's issues, misspellings, statistics    *)
(* and check selection as they were.                                       *)
(***************************************************************************)
C12_UnsupportedFormat ==
  [][output' # output =>
       /\ report' = report
       /\ enabled_checks' = enabled_checks
       /\ (output'.format \notin {"text", "json"}) <=> (output'.kind = "ValueError")]_vars

\* a report with an issue and a misspelling was asked for format "xml"
C12_Witness ==
  /\ output.kind = "ValueError"
  /\ output.format = "xml"
  /\ Len(report.issues) > 0
  /\ Len(report.misspelled_words) > 0

(***************************************************************************)
(* A checker constructed with a feature-type tag that is none of the three *)
(***************************************************************************)
\* a tag outside FeatureTypes, as GherkinChecker(feature_type=...) accepts it
OtherTag == "regression"

\* the longest document of SpecTag
MaxTagLines == 3

InitTag ==
  InitWith(SeqsUpTo(StructureLines, MaxTagLines), {OtherTag}, {FALSE}, {0}, {DefaultChecks})

SpecTag == InitTag /\ [][Next]_vars

(***************************************************************************)
(* C13: a scan whose checker has a feature-type tag outside standard,      *)
(* drive_cycle, success_criteria does not run: process_file never enters   *)
(* its loop, adds no issue, writes no statistics, and run_checks gets no   *)
(* report of it.                                                           *)
(***************************************************************************)
C13_InvalidTagFailsFast ==
  checker.feature_type \notin FeatureTypes =>
    /\ pc \notin {"scan", "done"}
    /\ report.issues = << >>
    /\ report.stats = NewReport(DefaultChecks, 0).stats
    /\ reports = << >>

(***************************************************************************)
(* run_checks over a list of files                                         *)
(***************************************************************************)
\* a file of the list: how reading it goes, and the lines it gives if it is read.
\* An undecodable file holds bytes that are not UTF-8 between its lines.
FileOf(read, doc) == [read |-> read, lines |-> doc]

SampleFiles ==
  {FileOf("ok", <<lnFeature, lnScenarioA>>),
   FileOf("ok", <<lnGiven>>),
   FileOf("not_found", << >>),
   FileOf("permission_denied", << >>),
   FileOf("undecodable", <<lnScenarioA>>)}

\* the most files of a batch
MaxFiles == 2

\* lines 233-241: open(file, 'r', encoding='utf-8', errors='ignore') and
\* readlines().  errors='ignore' drops the bytes that do not decode, so no
\* UnicodeDecodeError is raised; an OSError other than FileNotFoundError is
\* not caught
ReadLines(f) ==
  IF f.read = "not_found" THEN [result |-> "return False", lines |-> << >>]
  ELSE IF f.read = "permission_denied" THEN [result |-> "PermissionError", lines |-> << >>]
  ELSE [result |-> "lines", lines |-> f.lines]

InitBatch ==
  /\ lines = << >>
  /\ pc = "batch"
  /\ i = 0
  /\ loc = InitLocals
  /\ report = NewReport(DefaultChecks, 0)
  /\ enabled_checks = DefaultChecks
  /\ checker = SpellOff
  /\ spell_cache = << >>
  /\ custom_words = {}
  /\ hash_seed = 0
  /\ reports = << >>
  /\ output = NoOutput
  /\ files \in SeqsUpTo(SampleFiles, MaxFiles)
  /\ file_idx = 0
  /\ threads = << >>
  /\ spell_lock = 0
  /\ calls = << >>
  /\ app_custom_words = {}
  /\ gui = NoGui

\* lines 1286-1288 and 232-241: the next file gets a report, and is opened
OpenFile ==
  /\ pc = "batch"
  /\ file_idx < Len(files)
  /\ LET read == ReadLines(files[file_idx + 1])
     IN  /\ report' = set_feature_type(NewReport(enabled_checks, 0), checker.feature_type)
         /\ lines' = read.lines
         /\ loc' = InitLocals
         /\ i' = 1
         /\ pc' = IF read.result = "lines" THEN "scan"
                  ELSE IF read.result = "return False" THEN "skipped"
                  ELSE "crashed"
  /\ UNCHANGED <<checker, spell_cache, custom_words, hash_seed, reports,
                 enabled_checks, output, files, file_idx, threads, spell_lock, calls,
                 app_custom_words, gui>>

\* lines 1291-1296: on to the next file
Progress ==
  /\ pc \in {"done", "skipped"}
  /\ file_idx < Len(files)
  /\ file_idx' = file_idx + 1
  /\ pc' = "batch"
  /\ UNCHANGED <<lines, i, loc, report, checker, spell_cache, custom_words, hash_seed,
                 reports, enabled_checks, output, files, threads, spell_lock, calls,
                 app_custom_words, gui>>

RECURSIVE SumTotalErrors(_)
SumTotalErrors(rs) ==
  IF rs = << >> THEN 0 ELSE get_total_errors(Head(rs)) + SumTotalErrors(Tail(rs))

\* lines 1301-1330: after the loop, the summary of the reports, if there is one
Summary ==
  /\ pc = "batch"
  /\ file_idx = Len(files)
  /\ pc' = "returned"
  /\ output' = IF reports = << >> THEN NoOutput
               ELSE [kind |-> "summary", files_processed |-> Len(reports),
                     total_errors |-> SumTotalErrors(reports)]
  /\ UNCHANGED <<lines, i, loc, report, checker, spell_cache, custom_words, hash_seed,
                 reports, enabled_checks, files, file_idx, threads, spell_lock, calls,
                 app_custom_words, gui>>

NextBatch == OpenFile \/ ScanLine \/ Finish \/ Progress \/ Summary

SpecBatch == InitBatch /\ [][NextBatch]_vars

\* the files of the list that can be read
ReadableFiles == {k \in DOMAIN files : files[k].read = "ok"}

(***************************************************************************)
(* C14: whatever way a file of the list fails to be read (not found, not   *)
(* decodable, permission denied), run_checks does not stop: it deals with  *)
(* every file, the files that failed contribute no report, and there is a  *)
(* summary of the reports of the files that were read.                     *)
(***************************************************************************)
C14_ReadFailureSkipsFile ==
  /\ pc # "crashed"
  /\ pc = "returned" =>
       /\ file_idx = Len(files)
       /\ Len(reports) = Cardinality(ReadableFiles)
       /\ reports # << >> =>
            output.kind = "summary" /\ output.files_processed = Cardinality(ReadableFiles)

(***************************************************************************)
(* One session of the application: scans that share the spell cache, and   *)
(* the custom dictionary loaded between or during them                     *)
(***************************************************************************)
\* the lines of the dictionary file the user loads:  " Teh"
CustomDictionaryFile == << <<" ", "T", "e", "h">> >>

\* the set that GherkinCheckerApp.__init__ holds in self.custom_words, and a
\* set that GherkinChecker.__init__ creates
AppSet == "app.custom_words"
OwnSet == "checker.custom_words"

\* line 221, `custom_words or set()`: the argument itself if it is truthy (a
\* set with at least one element), a new set otherwise
CustomWordsOr(arg, contents) == IF contents # {} THEN arg ELSE OwnSet

\* lines 849-856: load_custom_dictionary adds the file's words, trimmed and in
\* lower case, to the application's set.  The checker's set is the one line
\* 221 chose when the application passed its set, then empty (lines 436-442)
LoadCustomDictionary ==
  /\ pc \in {"idle", "scan", "done", "threads"}
  /\ LET words == {Lower(Strip(CustomDictionaryFile[k])) :
                     k \in {j \in DOMAIN CustomDictionaryFile :
                              Strip(CustomDictionaryFile[j]) # << >>}}
     IN  /\ ~(words \subseteq app_custom_words)
         /\ app_custom_words' = app_custom_words \cup words
         /\ custom_words' = IF CustomWordsOr(AppSet, {}) = AppSet
                            THEN custom_words \cup words
                            ELSE custom_words
  /\ UNCHANGED <<lines, pc, i, loc, report, checker, spell_cache, hash_seed, reports,
                 enabled_checks, output, files, file_idx, threads, spell_lock, calls, gui>>

\* run_checks is called again in the same session: a new report, the same
\* checker, cache and custom words
CheckAgain ==
  /\ pc = "done"
  /\ Len(reports) < MaxScans
  /\ report' = NewReport(enabled_checks, report.timestamp + 1)
  /\ loc' = InitLocals
  /\ i' = 0
  /\ pc' = "idle"
  /\ UNCHANGED <<lines, checker, spell_cache, custom_words, hash_seed, reports, appVars>>

NextSession == Start \/ ScanLine \/ Finish \/ LoadCustomDictionary \/ CheckAgain

SpecSession == InitLexical /\ [][NextSession]_vars

(***************************************************************************)
(* C15: while a scan with spellcheck enabled runs, every misspelling it    *)
(* adds to the report is of a word that is not in the custom-word set      *)
(* (the checker's, and the application's, to which the user's words are    *)
(* added), whatever the spell cache holds for the word.                    *)
(***************************************************************************)
C15_CustomWordNeverReported ==
  [][Len(report'.misspelled_words) > Len(report.misspelled_words) =>
       \A k \in (Len(report.misspelled_words) + 1)..Len(report'.misspelled_words) :
          report'.misspelled_words[k].word \notin custom_words \cup app_custom_words]_vars

(***************************************************************************)
(* A checker constructed with or without a spellchecker argument           *)
(***************************************************************************)
\* line 219: self.spellchecker is the argument if one is passed, otherwise an
\* enchant.Dict of its own if the enchant module is there (SPELLCHECK_AVAILABLE),
\* otherwise None.  The record keeps whether the argument was passed.
GherkinCheckerInit(spellchecker_passed, available, ft, enabled) ==
  [spellchecker_passed |-> spellchecker_passed]
    @@ Checker(ft, enabled, spellchecker_passed \/ available)

InitCapability ==
  /\ lines \in SeqsUpTo(LexicalLines, MaxLexicalLines)
  /\ pc = "idle"
  /\ i = 0
  /\ loc = InitLocals
  /\ report = NewReport(DefaultChecks, 0)
  /\ enabled_checks = DefaultChecks
  /\ \E passed \in BOOLEAN, available \in BOOLEAN, enabled \in BOOLEAN :
       checker = GherkinCheckerInit(passed, available, "standard", enabled)
  /\ spell_cache = << >>
  /\ custom_words = {}
  /\ hash_seed = 0
  /\ reports = << >>
  /\ AppIdle

SpecCapability == InitCapability /\ [][Next]_vars

(***************************************************************************)
(* C16: when no spellchecker was passed to GherkinChecker, or              *)
(* spellcheck_enabled is false, a scan records no Misspelling and leaves   *)
(* the spell cache as it was (every call of check puts its word in the     *)
(* cache, so an unchanged cache means no call of check or suggest).        *)
(***************************************************************************)
C16_AbsentLikeDisabled ==
  (~checker.spellchecker_passed \/ ~checker.spellcheck_enabled) =>
    /\ report.misspelled_words = << >>
    /\ spell_cache = << >>

(***************************************************************************)
(* Concurrent scans in the spellcheck loop, lines 380-391.  The scans run  *)
(* in the threads of the application's executor, on the one checker of the *)
(* application: they share its spell cache and its lock.  Each thread is   *)
(* at one line of its file; a step is one statement of the loop body.      *)
(***************************************************************************)
\* how many scans run at once
NumThreads == 2

\* the lines the threads are at
ThreadLines == {lnMisspelled, lnMisspelledTwice}

\* line 380: a thread at the top of the loop over the words of its line
ThreadAt(line, seed) ==
  [words |-> SetIterationOrder(WordsToCheck(line), seed),
   pc |-> "loop", suggestions |-> << >>, found |-> << >>]

InitThreads ==
  /\ lines = << >>
  /\ pc = "threads"
  /\ i = 0
  /\ loc = InitLocals
  /\ report = NewReport(DefaultChecks, 0)
  /\ enabled_checks = DefaultChecks
  /\ checker = Checker("standard", TRUE, TRUE)
  /\ spell_cache = << >>
  /\ custom_words \in {{}, {wIs}}
  /\ hash_seed \in 0..(NumHashSeeds - 1)
  /\ reports = << >>
  /\ output = NoOutput
  /\ files = << >>
  /\ file_idx = 0
  /\ threads \in {[t \in 1..NumThreads |-> ThreadAt(f[t], hash_seed)] :
                    f \in [1..NumThreads -> ThreadLines]}
  /\ spell_lock = 0
  /\ calls = << >>
  /\ app_custom_words = {}
  /\ gui = NoGui

LockFreeM == TRUE

\* line 381: the lock can be taken when no other thread holds it
LockFree == spell_lock = 0

CallCount(op, word) ==
  IF <<op, word>> \in DOMAIN calls THEN calls[<<op, word>>] ELSE 0

Called(op, word) == (<<op, word>> :> (CallCount(op, word) + 1)) @@ calls

ThreadStep(t, next) == threads' = [threads EXCEPT ![t] = next]

\* line 381: with self.spell_lock
Acquire(t) ==
  /\ threads[t].pc = "loop"
  /\ threads[t].words # << >>
  /\ LockFree
  /\ spell_lock' = t
  /\ ThreadStep(t, [threads[t] EXCEPT !.pc = "test"])
  /\ UNCHANGED <<lines, pc, i, loc, report, checker, spell_cache, custom_words, hash_seed,
                 reports, enabled_checks, output, files, file_idx, calls,
                 app_custom_words, gui>>

\* lines 382-385: the cache test, and the custom-word test on a miss
CacheTest(t) ==
  /\ threads[t].pc = "test"
  /\ LET word == Head(threads[t].words)
     IN  IF word \in DOMAIN spell_cache
         THEN IF spell_cache[word] # << >>
              THEN ThreadStep(t, [threads[t] EXCEPT !.pc = "release",
                                                    !.found = Append(@, word)])
              ELSE ThreadStep(t, [threads[t] EXCEPT !.pc = "release"])
         ELSE IF word \notin custom_words
              THEN ThreadStep(t, [threads[t] EXCEPT !.pc = "check"])
              ELSE ThreadStep(t, [threads[t] EXCEPT !.pc = "release"])
  /\ UNCHANGED <<lines, pc, i, loc, report, checker, spell_cache, custom_words, hash_seed,
                 reports, enabled_checks, output, files, file_idx, spell_lock, calls,
                 app_custom_words, gui>>

\* line 386: self.spellchecker.check(word)
CallCheck(t) ==
  /\ threads[t].pc = "check"
  /\ LET word == Head(threads[t].words)
     IN  /\ calls' = Called("check", word)
         /\ IF SpellCheck(word)
            THEN ThreadStep(t, [threads[t] EXCEPT !.pc = "insert", !.suggestions = << >>])
            ELSE ThreadStep(t, [threads[t] EXCEPT !.pc = "suggest"])
  /\ UNCHANGED <<lines, pc, i, loc, report, checker, spell_cache, custom_words, hash_seed,
                 reports, enabled_checks, output, files, file_idx, spell_lock,
                 app_custom_words, gui>>

\* lines 387-388: self.spellchecker.suggest(word), report.add_misspelled
CallSuggest(t) ==
  /\ threads[t].pc = "suggest"
  /\ LET word == Head(threads[t].words)
     IN  /\ calls' = Called("suggest", word)
         /\ ThreadStep(t, [threads[t] EXCEPT !.pc = "insert",
                                             !.suggestions = SpellSuggest(word),
                                             !.found = Append(@, word)])
  /\ UNCHANGED <<lines, pc, i, loc, report, checker, spell_cache, custom_words, hash_seed,
                 reports, enabled_checks, output, files, file_idx, spell_lock,
                 app_custom_words, gui>>

\* lines 389 and 391: self.spell_cache[word] = ...
CacheInsert(t) ==
  /\ threads[t].pc = "insert"
  /\ spell_cache' = DictPut(spell_cache, Head(threads[t].words), threads[t].suggestions)
  /\ ThreadStep(t, [threads[t] EXCEPT !.pc = "release"])
  /\ UNCHANGED <<lines, pc, i, loc, report, checker, custom_words, hash_seed,
                 reports, enabled_checks, output, files, file_idx, spell_lock, calls,
                 app_custom_words, gui>>

\* the end of the with block, and on to the next word
Release(t) ==
  /\ threads[t].pc = "release"
  /\ spell_lock' = 0
  /\ ThreadStep(t, [threads[t] EXCEPT !.pc = "loop", !.words = Tail(@)])
  /\ UNCHANGED <<lines, pc, i, loc, report, checker, spell_cache, custom_words, hash_seed,
                 reports, enabled_checks, output, files, file_idx, calls,
                 app_custom_words, gui>>

NextThreads ==
  \/ \E t \in DOMAIN threads : Acquire(t)
  \/ \E t \in DOMAIN threads : CacheTest(t)
  \/ \E t \in DOMAIN threads : CallCheck(t)
  \/ \E t \in DOMAIN threads : CallSuggest(t)
  \/ \E t \in DOMAIN threads : CacheInsert(t)
  \/ \E t \in DOMAIN threads : Release(t)

SpecThreads == InitThreads /\ [][NextThreads]_vars

\* thread t is inside the with block
InLookup(t) == threads[t].pc \in {"test", "check", "suggest", "insert", "release"}

(***************************************************************************)
(* C17: in every interleaving of scans that share the spell cache and the  *)
(* lock, at most one scan is inside a word lookup (cache test, capability  *)
(* call, cache insert) at a time; check and suggest are each called at     *)
(* most once per word, and only for a word that is not in the cache; and   *)
(* an entry of the cache, once written, keeps its value.                   *)
(***************************************************************************)
C17_LookupIsCriticalSection ==
  /\ [](/\ \A t, u \in DOMAIN threads : (InLookup(t) /\ InLookup(u)) => t = u
        /\ \A c \in DOMAIN calls : calls[c] <= 1
        /\ \A t \in DOMAIN threads :
             threads[t].pc \in {"check", "suggest", "insert"} =>
               Head(threads[t].words) \notin DOMAIN spell_cache)
  /\ [][\A w \in DOMAIN spell_cache :
          w \in DOMAIN spell_cache' /\ spell_cache'[w] = spell_cache[w]]_vars

\* both scans have looked up teh: one called the capability, the other found
\* the entry in the cache
C17_Witness ==
  /\ pc = "threads"
  /\ \A t \in DOMAIN threads : wTeh \in Range(threads[t].found)
  /\ CallCount("check", wTeh) = 1
  /\ CallCount("suggest", wTeh) = 1
  /\ wTeh \in DOMAIN spell_cache

(***************************************************************************)
(* The check selection changed while reports exist                         *)
(***************************************************************************)
\* lines 824-827: save_checks assigns the dialog's values to the keys of
\* self.enabled_checks, in place.  run_checks passes that dict to TestReport
\* (line 1287) and TestReport keeps the dict it is passed (line 65), so the
\* reports of run_checks hold the very dict that save_checks writes to.
SaveChecks ==
  /\ \E c \in FormatChecks :
       /\ c # enabled_checks
       /\ enabled_checks' = c
       /\ report' = [report EXCEPT !.enabled_checks = c]
       /\ reports' = [k \in DOMAIN reports |-> [reports[k] EXCEPT !.enabled_checks = c]]
  /\ UNCHANGED <<lines, pc, i, loc, checker, spell_cache, custom_words, hash_seed,
                 output, files, file_idx, threads, spell_lock, calls,
                 app_custom_words, gui>>

NextChecks == Start \/ ScanLine \/ Finish \/ GenerateReport \/ SaveChecks

SpecChecks == InitLexical /\ [][NextChecks]_vars

(***************************************************************************)
(* C18: a report's check selection is the one it was constructed with: a   *)
(* later change of the application's selection, before or during           *)
(* serialization, changes neither the report's get_total_errors() nor what *)
(* generate_report gives for it.                                           *)
(***************************************************************************)
C18_ChecksFixedAtConstruction ==
  [][enabled_checks' # enabled_checks =>
       /\ get_total_errors(report') = get_total_errors(report)
       /\ generate_report(report', "text") = generate_report(report, "text")
       /\ generate_report(report', "json") = generate_report(report, "json")]_vars

(***************************************************************************)
(* The sections of the text report                                         *)
(***************************************************************************)
\* the sections in the order the text report is to have them: title, check,
\* and the feature type the section is for ("" if for all)
SectionOrder ==
  << <<"Misspelled Words:", "misspelled", "">>,
     <<"Syntax Errors:", "syntax", "">>,
     <<"Placeholder Mismatch Check:", "placeholder_mismatch", "">>,
     <<"Placeholder Order Check:", "placeholder_order", "">>,
     <<"Invalid Placeholder Syntax Check:", "invalid_placeholder", "">>,
     <<"Repeated Word Check:", "repeated_word", "">>,
     <<"Drive Cycle Format Check:", "drive_cycle", "drive_cycle">>,
     <<"Success Criteria Format Check:", "success_criteria", "success_criteria">>,
     <<"Duplicate Scenario Check:", "duplicate_scenario", "">> >>

\* the sections a report of this selection and feature type is to have
SectionsDue(r) ==
  SelectSeq(SectionOrder,
            LAMBDA sec : r.enabled_checks[sec[2]] /\ sec[3] \in {"", r.feature_type})

\* how many entries the report holds for the category of check c
CategorySize(r, c) ==
  IF c = "misspelled" THEN Len(r.misspelled_words)
  ELSE Cardinality({k \in DOMAIN r.issues : InCategory(r.issues[k], c, r.feature_type)})

(***************************************************************************)
(* C19: the text report has its sections in the order Misspelled Words,    *)
(* Syntax Errors, Placeholder Mismatch, Placeholder Order, Invalid         *)
(* Placeholder Syntax, Repeated Word, Drive Cycle (feature type            *)
(* drive_cycle only), Success Criteria (feature type success_criteria      *)
(* only), Duplicate Scenario, then the File Statistics; the section of a   *)
(* disabled check is absent; an enabled section says "None found" exactly  *)
(* when it has no entry, and otherwise lists all its entries; the          *)
(* statistics are always there.                                            *)
(***************************************************************************)
C19_SectionOrder ==
  pc = "report" =>
    LET text == TextReport(report)
        due == SectionsDue(report)
    IN  /\ Len(text.sections) = Len(due)
        /\ \A k \in DOMAIN due :
             /\ text.sections[k].title = due[k][1]
             /\ text.sections[k].none_found <=> (CategorySize(report, due[k][2]) = 0)
             /\ Len(text.sections[k].entries) = CategorySize(report, due[k][2])
        /\ text.stats = report.stats

\* a drive_cycle report: the syntax check is disabled though there is a syntax
\* error, the Drive Cycle section lists it, the Success Criteria section is
\* left out though its check is enabled, and Misspelled Words says None found
C19_Witness ==
  /\ pc = "report"
  /\ report.feature_type = "drive_cycle"
  /\ ~report.enabled_checks["syntax"]
  /\ report.enabled_checks["drive_cycle"]
  /\ report.enabled_checks["success_criteria"]
  /\ report.enabled_checks["misspelled"]
  /\ report.misspelled_words = << >>
  /\ Len(DriveCycleErrors(report)) = 1
  /\ SectionsTitled(report, "Drive Cycle Format Check:") # << >>
  /\ SectionsTitled(report, "Success Criteria Format Check:") = << >>
  /\ TextReport(report).sections[1].none_found

(***************************************************************************)
(* The line a placeholder issue is reported at                             *)
(***************************************************************************)
\* the lines of the document that are steps whose text contains the token
StepLinesWith(tok) ==
  {k \in DOMAIN lines : IsStepLine(Trimmed(k)) /\ Contains(Trimmed(k), tok)}

\* the first of them
FirstStepLineWith(tok) ==
  CHOOSE k \in StepLinesWith(tok) : \A j \in StepLinesWith(tok) : k <= j

(***************************************************************************)
(* C20: every Placeholder Mismatch and Placeholder Order issue is reported *)
(* at the line number, counted from 1, of the first step of the scenario   *)
(* whose text contains the token the issue names.                          *)
(***************************************************************************)
C20_PlaceholderIssueLine ==
  \A m \in DOMAIN report.issues :
    (/\ report.issues[m].type \in {PlaceholderMismatch, PlaceholderOrder}
     /\ StepLinesWith(report.issues[m].desc.tok) # {}) =>
      report.issues[m].line = FirstStepLineWith(report.issues[m].desc.tok)

\* the tokens named by the Placeholder Mismatch issues of a list of issues
MismatchTokens(issues) ==
  LET sel == SelectSeq(issues, LAMBDA x : x.type = PlaceholderMismatch)
  IN  [k \in 1..Len(sel) |-> sel[k].desc.tok]

\* the distinct tokens of `uses`, in order of first use, whose bare name is
\* no heading
ExpectedMismatchTokens(uses, headers) ==
  SelectSeq(Dedup(uses), LAMBDA ph : BareName(ph) \notin Range(headers))

(***************************************************************************)
(* C21: when the header row of a scenario's Examples table is captured,    *)
(* the Placeholder Mismatch issues added are exactly one for each distinct *)
(* valid placeholder of the buffered steps whose bare name is no heading,  *)
(* none for a placeholder whose name is a heading, and they are appended   *)
(* in the order in which the placeholders are first seen across the steps. *)
(***************************************************************************)
C21_MismatchInFirstSeenOrder ==
  [][CapturesHeader =>
       MismatchTokens(SubSeq(report'.issues, Len(report.issues) + 1, Len(report'.issues)))
         = ExpectedMismatchTokens(PlaceholdersUsed(loc.current_steps),
                                  loc'.examples_headers)]_vars

\* the part of C21 that does not depend on the order: the same tokens, each
\* once
C21_MismatchOncePerPlaceholder ==
  [][CapturesHeader =>
       LET got == MismatchTokens(SubSeq(report'.issues, Len(report.issues) + 1,
                                        Len(report'.issues)))
           want == ExpectedMismatchTokens(PlaceholdersUsed(loc.current_steps),
                                          loc'.examples_headers)
       IN  /\ Len(got) = Len(want)
           /\ Range(got) = Range(want)]_vars

(***************************************************************************)
(* Scenarios with Examples blocks, steps and blank lines in any order      *)
(***************************************************************************)
ExampleLines == {lnWhen, lnExamples, lnRow, lnBlank, lnScenarioB}

\* the most lines after the first Scenario line in a document of SpecExamples
MaxExampleLines == 4

\* nothing, a Feature line or a step (Given, But), then a Scenario line, then
\* the rest
ExampleDocs ==
  {pre \o <<lnScenarioA>> \o rest :
     pre \in SeqsUpTo({lnFeature, lnGiven, lnBut}, 1),
     rest \in SeqsUpTo(ExampleLines, MaxExampleLines)}

InitExamples ==
  InitWith(ExampleDocs, FeatureTypes, {FALSE}, {0}, {DefaultChecks})

SpecExamples == InitExamples /\ [][Next]_vars

IsExamplesLine(k) ==
  ~IsFeatureLine(k) /\ ~IsScenarioLine(k) /\ StartsWith(Trimmed(k), kwExamples)

\* line k lies in the Examples sub-state: an Examples line precedes it with
\* no Scenario line in between
InExamplesAt(k) ==
  \E j \in 1..(k - 1) :
    IsExamplesLine(j) /\ \A m \in (j + 1)..(k - 1) : ~IsScenarioLine(m)

\* line k is a table row in the Examples sub-state
IsTableRow(k) ==
  /\ ~IsFeatureLine(k) /\ ~IsScenarioLine(k) /\ ~IsExamplesLine(k)
  /\ StartsWith(Trimmed(k), <<"|">>)
  /\ InExamplesAt(k)

\* line k is the first table row after an Examples line
IsHeaderRow(k) ==
  /\ IsTableRow(k)
  /\ \E j \in 1..(k - 1) :
       IsExamplesLine(j) /\ \A m \in (j + 1)..(k - 1) : ~IsTableRow(m) /\ ~IsScenarioLine(m)

\* the table rows among lines 1..k that are no header rows
DataRows(k) == {m \in 1..k : IsTableRow(m) /\ ~IsHeaderRow(m)}

(***************************************************************************)
(* C22: after each Examples line the headers count as not yet captured:    *)
(* the first table row after every Examples line (also of a second         *)
(* Examples block of the same scenario) is a header row and is not         *)
(* counted, every other table row in the Examples sub-state adds 1 to      *)
(* total_iterations, and the count is never reset at a Scenario line; so   *)
(* stats.total_iterations is the number of non-header Examples rows of the *)
(* document.                                                               *)
(***************************************************************************)
C22_IterationsAreDataRows ==
  /\ pc = "scan" => loc.total_iterations = Cardinality(DataRows(i - 1))
  /\ pc = "done" => report.stats.total_iterations = Cardinality(DataRows(Len(lines)))

\* the last Scenario line of the document
LastScenario ==
  CHOOSE s \in 1..Len(lines) :
    IsScenarioLine(s) /\ \A k \in (s + 1)..Len(lines) : ~IsScenarioLine(k)

\* the drive_cycle and success_criteria boundary issues due for the last
\* scenario, from its steps alone
LastScenarioIssuesDue(ft) ==
  LET s == LastScenario
  IN  (IF ft = "drive_cycle" /\ StepsOfKind(s, kwWhen) # {}
       THEN {Issue(SyntaxError, MsgWhenDriveCycle, s)} ELSE {})
      \cup
      (IF ft = "drive_cycle" /\ StepsOfKind(s, kwThen) # {}
       THEN {Issue(SyntaxError, MsgThenDriveCycle, s)} ELSE {})
      \cup
      (IF ft = "success_criteria" /\ Cardinality(StepsOfKind(s, kwGiven)) # 1
       THEN {Issue(SyntaxError, MsgGivenCount(Cardinality(StepsOfKind(s, kwGiven))), s)}
       ELSE {})
      \cup
      (IF ft = "success_criteria" /\ Cardinality(StepsOfKind(s, kwWhen)) # 1
       THEN {Issue(SyntaxError, MsgWhenCount(Cardinality(StepsOfKind(s, kwWhen))), s)}
       ELSE {})

\* the boundary issues the report holds at line s
BoundaryIssuesAt(s) ==
  {x \in Range(report.issues) :
     /\ x.line = s
     /\ x.desc.fmt \in {MsgWhenDriveCycle.fmt, MsgThenDriveCycle.fmt,
                        MsgGivenCount(0).fmt, MsgWhenCount(0).fmt}}

(***************************************************************************)
(* C23: the feature-type boundary checks of the last scenario are run at   *)
(* the end of the document whatever its final lines are: after the scan    *)
(* the drive_cycle and success_criteria boundary issues at the last        *)
(* scenario's start line are those its steps call for, also when blank     *)
(* lines (or any other kind of line) end the file.                         *)
(***************************************************************************)
C23_LastScenarioChecked ==
  (pc = "done" /\ \E s \in 1..Len(lines) : IsScenarioLine(s)) =>
    BoundaryIssuesAt(LastScenario) = LastScenarioIssuesDue(checker.feature_type)

\* the same, for documents whose last line is neither blank nor a comment
C23_CheckedUnlessBlankEnds ==
  (/\ pc = "done" /\ \E s \in 1..Len(lines) : IsScenarioLine(s)
   /\ Trimmed(Len(lines)) # << >> /\ ~StartsWith(Trimmed(Len(lines)), <<"#">>)) =>
    BoundaryIssuesAt(LastScenario) = LastScenarioIssuesDue(checker.feature_type)

\* the same, for feature type success_criteria
C23_SuccessCriteriaChecked ==
  (/\ pc = "done" /\ \E s \in 1..Len(lines) : IsScenarioLine(s)
   /\ checker.feature_type = "success_criteria") =>
    BoundaryIssuesAt(LastScenario) = LastScenarioIssuesDue(checker.feature_type)

(***************************************************************************)
(* Table rows and step lines with words, spellcheck enabled                *)
(***************************************************************************)
RowLines == {lnExamples, lnRowWords, lnRepeated, lnKeywordRepeated, lnScenarioB}

\* the most lines after the first Scenario line in a document of SpecRows
MaxRowLines == 3

RowDocs == {<<lnScenarioA>> \o rest : rest \in SeqsUpTo(RowLines, MaxRowLines)}

InitRows == InitWith(RowDocs, {"standard"}, {TRUE}, {0}, {DefaultChecks})

SpecRows == InitRows /\ [][Next]_vars

(***************************************************************************)
(* C24: a table row inside the Examples sub-state is exempt from           *)
(* spellcheck: no Misspelling is recorded at the line of such a row.       *)
(***************************************************************************)
C24_TableRowsNotSpellchecked ==
  \A m \in DOMAIN report.misspelled_words :
    ~IsTableRow(report.misspelled_words[m].line)

\* line k is neither blank nor a comment
IsContentLine(k) == Trimmed(k) # << >> /\ ~StartsWith(Trimmed(k), <<"#">>)

\* the word tokens of the masked line k
MaskedWords(k) == WordFindall(FixedValueSub(PlaceholderSub(Trimmed(k))))

\* the adjacent pairs of equal word tokens of the masked line k whose word is
\* no keyword, by the position of their first token
RepeatedPairs(k) ==
  {j \in 1..(Len(MaskedWords(k)) - 1) :
     /\ MaskedWords(k)[j] = MaskedWords(k)[j + 1]
     /\ \A kw \in KeywordList : MaskedWords(k)[j] # kw}

\* the Repeated Word issues of the report at line k
RepeatedIssuesAt(k) ==
  {m \in DOMAIN report.issues :
     report.issues[m].type = RepeatedWord /\ report.issues[m].line = k}

(***************************************************************************)
(* C25: for every scanned non-blank, non-comment line that is no table row *)
(* in the Examples sub-state, the number of Repeated Word issues at that   *)
(* line is the number of adjacent pairs of character-equal word tokens of  *)
(* the masked line whose word is no keyword, and each issue names the word *)
(* of such a pair; a table row in the Examples sub-state has no Repeated   *)
(* Word issue.                                                             *)
(***************************************************************************)
C25_RepeatedWordPairs ==
  \A k \in 1..Len(lines) :
    /\ (Processed(k) /\ IsContentLine(k) /\ ~IsTableRow(k)) =>
         /\ Cardinality(RepeatedIssuesAt(k)) = Cardinality(RepeatedPairs(k))
         /\ \A m \in RepeatedIssuesAt(k) :
              \E j \in RepeatedPairs(k) :
                report.issues[m].desc = MsgRepeated(MaskedWords(k)[j])
    /\ IsTableRow(k) => RepeatedIssuesAt(k) = {}

\* a scanned document with a line of two countable pairs beside a keyword
\* pair and a pair differing in case, and a table row with a repeated word
C25_Witness ==
  /\ pc = "done"
  /\ \E k \in 1..Len(lines) :
       /\ lines[k] = lnKeywordRepeated
       /\ Cardinality(RepeatedIssuesAt(k)) = 2
  /\ \E k \in 1..Len(lines) :
       /\ IsTableRow(k) /\ lines[k] = lnRowWords
       /\ RepeatedIssuesAt(k) = {}

\* the loop is about to scan a step line while in the Examples sub-state
ScansStepInExamples ==
  /\ pc = "scan" /\ i <= Len(lines)
  /\ loc.in_examples
  /\ ~IsFeatureLine(i) /\ ~IsScenarioLine(i) /\ ~IsExamplesLine(i)
  /\ IsStepLine(Trimmed(i))

(***************************************************************************)
(* C26: a step line scanned in the Examples sub-state of a scenario adds 1 *)
(* to the document step count and leaves the scenario's step-text buffer   *)
(* and its Given/When/Then/And counters as they are, so that it plays no   *)
(* part in the scenario's boundary checks.                                 *)
(***************************************************************************)
C26_StepInExamplesNotCounted ==
  [][ScansStepInExamples =>
       /\ loc'.steps = loc.steps + 1
       /\ loc'.current_steps = loc.current_steps
       /\ loc'.given_count = loc.given_count
       /\ loc'.when_count = loc.when_count
       /\ loc'.then_count = loc.then_count
       /\ loc'.and_count = loc.and_count]_vars

\* the parts of C26 about the step count and the buffer
C26_StepInExamplesNotBuffered ==
  [][ScansStepInExamples =>
       /\ loc'.steps = loc.steps + 1
       /\ loc'.current_steps = loc.current_steps]_vars

\* a Feature line occurs before line k
FeatureBefore(k) == \E j \in 1..(k - 1) : IsFeatureLine(j)

(***************************************************************************)
(* C27: a scanned Scenario line has the issue "Scenario found before       *)
(* Feature" at its own line, once, if and only if no Feature line occurs   *)
(* earlier in the document; once a Feature line has been seen no later     *)
(* Scenario line has it, and no other line ever has it.                    *)
(***************************************************************************)
C27_ScenarioBeforeFeature ==
  /\ \A k \in 1..Len(lines) :
       CountIssue(Issue(SyntaxError, MsgScenarioBeforeFeature, k)) =
         IF Processed(k) /\ IsScenarioLine(k) /\ ~FeatureBefore(k) THEN 1 ELSE 0
  /\ CountFmt(SyntaxError, MsgScenarioBeforeFeature.fmt) =
       Cardinality({k \in 1..Len(lines) :
                      Processed(k) /\ IsScenarioLine(k) /\ ~FeatureBefore(k)})

\* a scanned document with a Scenario line, then a Feature line, then another
\* Scenario line: the issue is at the first Scenario line only
C27_Witness ==
  /\ pc = "done"
  /\ \E a, b, c \in 1..Len(lines) :
       /\ a < b /\ b < c
       /\ IsScenarioLine(a) /\ IsFeatureLine(b) /\ IsScenarioLine(c)
       /\ ~FeatureBefore(a)
       /\ CountIssue(Issue(SyntaxError, MsgScenarioBeforeFeature, a)) = 1
       /\ CountIssue(Issue(SyntaxError, MsgScenarioBeforeFeature, c)) = 0

\* line k is a step line: none of the earlier branches of the scanner takes
\* it and it starts with a step keyword
IsStepAt(k) ==
  /\ ~IsFeatureLine(k) /\ ~IsScenarioLine(k) /\ ~IsExamplesLine(k)
  /\ ~IsTableRow(k)
  /\ IsStepLine(Trimmed(k))

\* a Scenario line occurs before line k
ScenarioBefore(k) == \E j \in 1..(k - 1) : IsScenarioLine(j)

\* the step lines among lines 1..k
StepLinesUpTo(k) == {m \in 1..k : IsStepAt(m)}

(***************************************************************************)
(* C28: every step line (Given/When/Then/And/But prefix) adds exactly 1 to *)
(* the step count, with or without a current scenario and inside or        *)
(* outside the Examples sub-state, so that stats.steps is the number of    *)
(* step lines of the document; a scanned step line has the issue "Step     *)
(* found outside a Scenario" at its line, once, if and only if no Scenario *)
(* line precedes it, and no other line has it.                             *)
(***************************************************************************)
C28_StepsCounted ==
  /\ pc = "scan" => loc.steps = Cardinality(StepLinesUpTo(i - 1))
  /\ pc = "done" => report.stats.steps = Cardinality(StepLinesUpTo(Len(lines)))
  /\ \A k \in 1..Len(lines) :
       CountIssue(Issue(SyntaxError, MsgStepOutside, k)) =
         IF Processed(k) /\ IsStepAt(k) /\ ~ScenarioBefore(k) THEN 1 ELSE 0
  /\ CountFmt(SyntaxError, MsgStepOutside.fmt) =
       Cardinality({k \in 1..Len(lines) :
                      Processed(k) /\ IsStepAt(k) /\ ~ScenarioBefore(k)})

\* a scanned document with a step before the first Scenario line, a step of
\* the scenario and a step in its Examples sub-state: three steps, one issue
C28_Witness ==
  /\ pc = "done"
  /\ report.stats.steps = 3
  /\ IsStepAt(1)
  /\ CountIssue(Issue(SyntaxError, MsgStepOutside, 1)) = 1
  /\ \E k \in 1..Len(lines) : IsStepAt(k) /\ InExamplesAt(k)
  /\ \E k \in 1..Len(lines) : IsStepAt(k) /\ ScenarioBefore(k) /\ ~InExamplesAt(k)
  /\ CountFmt(SyntaxError, MsgStepOutside.fmt) = 1

\* the words of line k that the spellcheck capability judges incorrect and
\* that are no custom words
IncorrectWords(k) ==
  {w \in Range(WordsToCheck(Trimmed(k))) : ~SpellCheck(w) /\ w \notin custom_words}

\* the report has a Misspelling record of word w at line k
HasMisspelling(w, k) ==
  \E m \in DOMAIN report.misspelled_words :
    report.misspelled_words[m].word = w /\ report.misspelled_words[m].line = k

(***************************************************************************)
(* C29: with spellcheck enabled, every scanned line on which a word occurs *)
(* that the spellcheck capability judges incorrect, and that is no custom  *)
(* word, has its own Misspelling record for that word: also the second and *)
(* later lines with the word, and also a word for which the capability     *)
(* returns no suggestion.                                                  *)
(***************************************************************************)
C29_EveryOccurrenceReported ==
  (checker.spellcheck_enabled /\ checker.has_spellchecker) =>
    \A k \in 1..Len(lines) :
      (Processed(k) /\ IsContentLine(k)) =>
        \A w \in IncorrectWords(k) : HasMisspelling(w, k)

\* the same, for the words for which the capability has a suggestion
C29_SuggestedWordsReported ==
  (checker.spellcheck_enabled /\ checker.has_spellchecker) =>
    \A k \in 1..Len(lines) :
      (Processed(k) /\ IsContentLine(k)) =>
        \A w \in IncorrectWords(k) : SpellSuggest(w) # << >> => HasMisspelling(w, k)

(***************************************************************************)
(* The application's spell cache and the checker's                         *)
(***************************************************************************)
\* the dict that GherkinCheckerApp.__init__ holds in self.spell_cache after
\* load_spell_cache, and a dict that GherkinChecker.__init__ creates
AppDict == "app.spell_cache"
OwnDict == "checker.spell_cache"

\* line 220, `spell_cache or {}`: the argument itself if it is truthy (a dict
\* with at least one key), a new dict otherwise
SpellCacheOr(arg, contents) == IF contents # << >> THEN arg ELSE OwnDict

\* GherkinChecker.__init__ as the application calls it: the checker and the
\* dict its spell_cache attribute refers to
GherkinCheckerWithCache(contents, ft, enabled) ==
  [spell_cache_ref |-> SpellCacheOr(AppDict, contents)] @@ Checker(ft, enabled, TRUE)

\* what load_spell_cache leaves in self.spell_cache: {} without a cache file,
\* the pickled mapping otherwise
LoadedCaches ==
  {<< >>, DictPut(<< >>, wTeh, <<wThe>>), DictPut(<< >>, wThe, << >>)}

InitCache ==
  /\ lines \in SeqsUpTo(LexicalLines, MaxLexicalLines)
  /\ pc = "idle"
  /\ i = 0
  /\ loc = InitLocals
  /\ report = NewReport(DefaultChecks, 0)
  /\ enabled_checks = DefaultChecks
  /\ spell_cache \in LoadedCaches
  /\ checker = GherkinCheckerWithCache(spell_cache, "standard", TRUE)
  /\ custom_words = {}
  /\ hash_seed = 0
  /\ reports = << >>
  /\ AppIdle

\* the contents of a dict: the variable spell_cache holds those of the dict
\* the checker refers to; the application's dict, when the checker refers to
\* another one, is the empty dict of line 433, which nothing writes
DictContents(ref) == IF ref = checker.spell_cache_ref THEN spell_cache ELSE << >>

\* save_spell_cache, lines 841-847, called at on_closing: pickles the
\* application's self.spell_cache
SaveSpellCache ==
  /\ pc = "done"
  /\ output = NoOutput
  /\ output' = [kind |-> "pickle", data |-> DictContents(AppDict)]
  /\ UNCHANGED <<lines, pc, i, loc, report, checker, spell_cache, custom_words,
                 hash_seed, reports, enabled_checks, files, file_idx, threads,
                 spell_lock, calls, app_custom_words, gui>>

NextCache == Start \/ ScanLine \/ Finish \/ SaveSpellCache

SpecCache == InitCache /\ [][NextCache]_vars

\* the words of the scanned lines that the spellcheck loop has looked up
LookedUp ==
  UNION {Range(WordsToCheck(Trimmed(k))) \ custom_words :
           k \in {j \in 1..Len(lines) : Processed(j) /\ IsContentLine(j)}}

(***************************************************************************)
(* C30: the scanner reads and writes the cache mapping its caller          *)
(* supplied: every word that a scan has looked up (a cache miss puts it    *)
(* in the cache) is a key of the mapping that was passed as spell_cache to *)
(* GherkinChecker, whatever that mapping held at first, also nothing; and  *)
(* save_spell_cache writes out a mapping that has these words as keys.     *)
(***************************************************************************)
C30_CallersCacheUpdated ==
  /\ LookedUp \subseteq DOMAIN DictContents(AppDict)
  /\ output # NoOutput => LookedUp \subseteq DOMAIN output.data

\* the same, for a mapping that held at least one entry when it was passed
C30_NonEmptyCacheUpdated ==
  checker.spell_cache_ref = AppDict =>
    /\ LookedUp \subseteq DOMAIN DictContents(AppDict)
    /\ output # NoOutput => LookedUp \subseteq DOMAIN output.data

(***************************************************************************)
(* C31: the words that load_custom_dictionary adds to the application's    *)
(* custom-word set are exempt from spellcheck in every scan started        *)
(* afterwards: the set the scanner consults is the set the application     *)
(* updates, so the two hold the same words.                                *)
(***************************************************************************)
C31_ScannerConsultsApplicationsSet == custom_words = app_custom_words

(***************************************************************************)
(* Several scenarios, some with the same title, with steps and Examples    *)
(***************************************************************************)
ResetLines == {lnScenarioA, lnStepA, lnStepCX, lnExamples, lnHeaderBA}

\* the most lines after the first Scenario line in a document of SpecReset
MaxResetLines == 4

ResetDocs == {<<lnScenarioA>> \o rest : rest \in SeqsUpTo(ResetLines, MaxResetLines)}

InitReset == InitWith(ResetDocs, FeatureTypes, {FALSE}, {0}, {DefaultChecks})

SpecReset == InitReset /\ [][Next]_vars

\* the last Scenario line before line k (0 if there is none)
ScenarioOf(k) ==
  IF \E s \in 1..(k - 1) : IsScenarioLine(s)
  THEN CHOOSE s \in 1..(k - 1) :
         IsScenarioLine(s) /\ \A j \in (s + 1)..(k - 1) : ~IsScenarioLine(j)
  ELSE 0

\* the numbers of a finite set, in ascending order
RECURSIVE Ascending(_)
Ascending(S) ==
  IF S = {} THEN << >>
  ELSE LET m == CHOOSE x \in S : \A y \in S : x <= y
       IN  <<m>> \o Ascending(S \ {m})

\* what the per-scenario state must be before line k is scanned, read from
\* the lines after the Scenario line s alone
ScenarioState(s, k) ==
  LET buffered == Ascending({m \in (s + 1)..(k - 1) : IsStepAt(m) /\ ~InExamplesAt(m)})
      rows == Ascending({m \in (s + 1)..(k - 1) : IsTableRow(m)})
      kind(kw) == Cardinality({m \in (s + 1)..(k - 1) :
                                 IsStepAt(m) /\ StartsWith(Trimmed(m), kw)})
  IN  [current_scenario |-> Trimmed(s),
       scenario_start_line |-> s,
       current_steps |-> [m \in 1..Len(buffered) |-> Trimmed(buffered[m])],
       given_count |-> kind(kwGiven),
       when_count |-> kind(kwWhen),
       then_count |-> kind(kwThen),
       and_count |-> kind(kwAnd),
       in_examples |-> \E m \in (s + 1)..(k - 1) : IsExamplesLine(m),
       examples_headers |-> IF rows = << >> THEN << >>
                            ELSE HeaderCells(Trimmed(rows[1]))]

\* the per-scenario part of the scanner's locals
PerScenario(l) ==
  [current_scenario |-> l.current_scenario,
   scenario_start_line |-> l.scenario_start_line,
   current_steps |-> l.current_steps,
   given_count |-> l.given_count,
   when_count |-> l.when_count,
   then_count |-> l.then_count,
   and_count |-> l.and_count,
   in_examples |-> l.in_examples,
   examples_headers |-> l.examples_headers]

(***************************************************************************)
(* C32: every Scenario line, duplicate title or not, becomes the current   *)
(* scenario and resets the per-scenario state (empty step buffer, counters *)
(* 0, Examples sub-state left, headers cleared, start line = this line);   *)
(* hence at every point of the scan the per-scenario state, which the      *)
(* placeholder and boundary checks read, is determined by the lines after  *)
(* the last Scenario line alone.                                           *)
(***************************************************************************)
C32_ScenarioLineResets ==
  (pc = "scan" /\ ScenarioOf(i) # 0) =>
    PerScenario(loc) = ScenarioState(ScenarioOf(i), i)

\* the scanner has just passed a second Scenario line with the title of the
\* first, whose scenario had steps, an Examples line and captured headers
C32_Witness ==
  /\ pc = "scan" /\ i > 2
  /\ IsScenarioLine(i - 1)
  /\ Trimmed(i - 1) = Trimmed(1)
  /\ \E a, b, c \in 2..(i - 2) :
       a < b /\ b < c /\ IsStepAt(a) /\ IsExamplesLine(b) /\ IsTableRow(c)
  /\ PerScenario(loc) = ScenarioState(i - 1, i)
  /\ loc.current_steps = << >> /\ ~loc.in_examples /\ loc.examples_headers = << >>
  /\ loc.then_count = 0 /\ loc.when_count = 0

\* the loop is about to scan a line that starts with '|' while it is not in
\* the Examples sub-state
ScansBarOutsideExamples ==
  /\ pc = "scan" /\ i <= Len(lines)
  /\ StartsWith(Trimmed(i), <<"|">>)
  /\ ~loc.in_examples

\* the Placeholder Mismatch and Placeholder Order issues of a report
PlaceholderIssues(r) ==
  SelectSeq(r.issues, LAMBDA x : x.type \in {PlaceholderMismatch, PlaceholderOrder})

(***************************************************************************)
(* C33: a line starting with '|' that is scanned while the scanner is not  *)
(* in the Examples sub-state changes no scanner state: it captures no      *)
(* headers, runs no placeholder validation (no Placeholder Mismatch or     *)
(* Placeholder Order issue is added), and leaves total_iterations, the     *)
(* step count, the step buffer, the per-kind counters and every other      *)
(* local as they are.                                                      *)
(***************************************************************************)
C33_BarOutsideExamplesIgnored ==
  [][ScansBarOutsideExamples =>
       /\ loc' = loc
       /\ PlaceholderIssues(report') = PlaceholderIssues(report)]_vars

\* a '|' line has been scanned outside the Examples sub-state, after a step
\* whose placeholders are no cells of it: no headers, no iteration, no issue
C33_Witness ==
  /\ pc = "scan" /\ i > 2
  /\ lines[i - 1] = lnHeaderBA
  /\ lines[i - 2] = lnStepCX
  /\ ~InExamplesAt(i - 1)
  /\ loc.current_steps # << >>
  /\ loc.examples_headers = << >>
  /\ loc.total_iterations = 0
  /\ PlaceholderIssues(report) = << >>

(***************************************************************************)
(* C34: for every report, feature type and check selection,                *)
(* get_total_errors() is at most the number of issues plus the number of   *)
(* misspellings: no single issue is counted more than once.                *)
(***************************************************************************)
C34_NoIssueCountedTwice ==
  get_total_errors(report) <= Len(report.issues) + Len(report.misspelled_words)

\* the Misspellings that a scan alone, with a cache that holds none of the
\* words, records for the words ws: those the capability judges incorrect
\* and that are no custom words
ScannedAlone(ws) ==
  SelectSeq(ws, LAMBDA w : ~SpellCheck(w) /\ w \notin custom_words)

\* the words of thread t's line that its loop has still to look up
WordsAhead(t) ==
  IF threads[t].pc \in {"insert", "release"}
  THEN Tail(threads[t].words)
  ELSE threads[t].words

\* the Misspellings thread t has recorded, followed by those that a scan
\* alone would record for the words still ahead
MisspellingsInAll(t) == threads[t].found \o ScannedAlone(WordsAhead(t))

(***************************************************************************)
(* C35: for two or more documents scanned concurrently with one shared     *)
(* spell cache, the Misspellings of each document's report are the same    *)
(* under every interleaving and the same as when the document is scanned   *)
(* alone: whatever the other scans have put into the cache, no step makes  *)
(* a scan record another list than it would record alone.                  *)
(***************************************************************************)
C35_MisspellingsIndependentOfInterleaving ==
  [][\A t \in DOMAIN threads : MisspellingsInAll(t)' = MisspellingsInAll(t)]_vars

\* the same, for the words for which the capability has a suggestion
C35_SuggestedWordsIndependent ==
  [][\A t \in DOMAIN threads :
       SelectSeq(MisspellingsInAll(t)', LAMBDA w : SpellSuggest(w) # << >>)
         = SelectSeq(MisspellingsInAll(t), LAMBDA w : SpellSuggest(w) # << >>)]_vars

(***************************************************************************)
(* The feature type changed in the user interface while a scan runs        *)
(***************************************************************************)
\* line 614: the values of the feature-type menu
FeatureOptions ==
  {<<"S","t","a","n","d","a","r","d">>,
   <<"D","r","i","v","e"," ","C","y","c","l","e">>,
   <<"S","u","c","c","e","s","s"," ","C","r","i","t","e","r","i","a">>}

\* str.replace(" ", "_")
ReplaceSpaces(s) == [k \in 1..Len(s) |-> IF s[k] = " " THEN "_" ELSE s[k]]

\* the feature-type tag spelled by a sequence of characters
TagOf(s) ==
  IF s = <<"s","t","a","n","d","a","r","d">> THEN "standard"
  ELSE IF s = <<"d","r","i","v","e","_","c","y","c","l","e">> THEN "drive_cycle"
  ELSE IF s = <<"s","u","c","c","e","s","s","_","c","r","i","t","e","r","i","a">>
       THEN "success_criteria"
  ELSE OtherTag

\* lines 883-886: update_feature_type, the command of the feature-type menu,
\* runs on the GUI thread and writes the feature type of the shared checker;
\* process_file runs in a thread of the executor
UpdateFeatureType ==
  /\ pc \in {"idle", "scan", "done"}
  /\ \E option \in FeatureOptions :
       /\ TagOf(ReplaceSpaces(Lower(option))) # checker.feature_type
       /\ checker' = [checker EXCEPT !.feature_type = TagOf(ReplaceSpaces(Lower(option)))]
  /\ UNCHANGED <<lines, pc, i, loc, report, spell_cache, custom_words, hash_seed, reports,
                 appVars>>

UpdateLines == {lnScenarioA, lnGiven, lnWhen, lnBut}

\* the longest document of SpecUpdate
MaxUpdateLines == 3

InitUpdate ==
  InitWith(SeqsUpTo(UpdateLines, MaxUpdateLines), FeatureTypes, {FALSE}, {0}, {DefaultChecks})

NextUpdate == Start \/ ScanLine \/ Finish \/ UpdateFeatureType

SpecUpdate == InitUpdate /\ [][NextUpdate]_vars

(***************************************************************************)
(* C36: within one scan every feature-type policy decision (the But rule,  *)
(* the drive_cycle and success_criteria boundary rules) uses the feature   *)
(* type that process_file stored in the report at the start of the scan,   *)
(* also when update_feature_type is called meanwhile: a report holds       *)
(* Drive Cycle issues only if its feature type is drive_cycle and Success  *)
(* Criteria issues only if it is success_criteria.                         *)
(***************************************************************************)
C36_PolicyUsesReportsFeatureType ==
  \A k \in DOMAIN report.issues :
    /\ MentionsDriveCycle(report.issues[k].desc) => report.feature_type = "drive_cycle"
    /\ MentionsSuccessCriteria(report.issues[k].desc) =>
         report.feature_type = "success_criteria"

(***************************************************************************)
(* The GUI thread's accesses to the structures the scans share             *)
(***************************************************************************)
\* the application after __init__ (lines 433-447) with scans running in the
\* executor's threads: the cache is what load_spell_cache left, the checker
\* was constructed with it
InitShared ==
  /\ lines = << >>
  /\ pc = "threads"
  /\ i = 0
  /\ loc = InitLocals
  /\ report = NewReport(DefaultChecks, 0)
  /\ enabled_checks = DefaultChecks
  /\ spell_cache \in LoadedCaches
  /\ checker = GherkinCheckerWithCache(spell_cache, "standard", TRUE)
  /\ custom_words = {}
  /\ hash_seed \in 0..(NumHashSeeds - 1)
  /\ reports = << >>
  /\ output = NoOutput
  /\ files = << >>
  /\ file_idx = 0
  /\ threads \in {[t \in 1..NumThreads |-> ThreadAt(f[t], hash_seed)] :
                    f \in [1..NumThreads -> ThreadLines]}
  /\ spell_lock = 0
  /\ calls = << >>
  /\ app_custom_words = {}
  /\ gui = NoGui

\* lines 843-845, on the GUI thread: pickle.dump starts to iterate over
\* self.spell_cache and notes its size; no lock is taken
SaveSpellCacheBegin ==
  /\ pc = "threads"
  /\ output = NoOutput
  /\ output' = [kind |-> "pickling", size |-> Cardinality(DOMAIN DictContents(AppDict))]
  /\ UNCHANGED <<lines, pc, i, loc, report, checker, spell_cache, custom_words,
                 hash_seed, reports, enabled_checks, files, file_idx, threads,
                 spell_lock, calls, app_custom_words, gui>>

\* line 845: the iteration ends; a dict whose size changed meanwhile raises
\* RuntimeError, which the except clause of line 846 (IOError) does not catch
SaveSpellCacheEnd ==
  /\ pc = "threads"
  /\ output.kind = "pickling"
  /\ output' = IF Cardinality(DOMAIN DictContents(AppDict)) # output.size
               THEN [kind |-> "RuntimeError"]
               ELSE [kind |-> "pickle", data |-> DictContents(AppDict)]
  /\ UNCHANGED <<lines, pc, i, loc, report, checker, spell_cache, custom_words,
                 hash_seed, reports, enabled_checks, files, file_idx, threads,
                 spell_lock, calls, app_custom_words, gui>>

NextShared ==
  \/ NextThreads
  \/ SaveSpellCacheBegin
  \/ SaveSpellCacheEnd
  \/ LoadCustomDictionary

SpecShared == InitShared /\ [][NextShared]_vars

(***************************************************************************)
(* C37: the GUI thread touches the structures the scans share only outside *)
(* the scans' lookup critical section: while save_spell_cache iterates     *)
(* over the cache the checker uses, and when load_custom_dictionary        *)
(* updates the custom-word set, no scan holds the spell lock.              *)
(***************************************************************************)
C37_SharedStructuresUnderLock ==
  /\ []((output.kind = "pickling" /\ checker.spell_cache_ref = AppDict) => spell_lock = 0)
  /\ [][app_custom_words' # app_custom_words => spell_lock = 0]_vars

(***************************************************************************)
(* The window: the GUI thread with its queue of root.after callbacks, the  *)
(* Execute button, and the task that execute_action submits to the         *)
(* executor.  Only callbacks that act on the modelled state are queued:    *)
(* the one that sets the button to "normal" and set_download_dir.          *)
(***************************************************************************)
\* lines 1436-1442: the values of action_map
InternalActions ==
  {"download_feature_files", "download_test_plan", "run_checks_on_feature_files",
   "run_checks_on_test_plan", "run_checks_files"}

\* line 1450: the actions that need keys
NeedKeys == InternalActions \ {"run_checks_files"}

\* what the key entry can hold: nothing, blanks, a comma, a key
KeysInputs == {<< >>, <<" ">>, <<",">>, <<"K", "-", "1">>}

\* what the file list can hold, as line 1464 reads it
FilesInputs == {<< >>, << <<"a">> >>}

\* line 1068: some element of issue_keys.split(",") is not blank
HasIssueKey(keys) == \E k \in DOMAIN keys : keys[k] \notin Whitespace \cup {","}

\* no task in the executor
IdleWorker == [pc |-> "idle", task |-> "none"]

\* the tasks that call a download function inside try ... finally
Wrapped(task) == task \in {"run_checks_on_feature_files", "run_checks_on_test_plan"}

\* the tasks whose download function is download_feature_files
DownloadsIssues(task) == task \in {"download_feature_files", "run_checks_on_feature_files"}

\* root.after(0, cb) appends cb to the callbacks the main loop will run
After(g, cb) == [g EXCEPT !.after = Append(@, cb)]

\* the window after GherkinCheckerApp.__init__ and load_saved_pat, in mainloop
InitGui ==
  /\ lines = << >>
  /\ pc = "gui"
  /\ i = 0
  /\ loc = InitLocals
  /\ report = NewReport(DefaultChecks, 0)
  /\ enabled_checks = DefaultChecks
  /\ checker = Checker("standard", TRUE, TRUE)
  /\ spell_cache = << >>
  /\ custom_words = {}
  /\ hash_seed = 0
  /\ reports = << >>
  /\ output = NoOutput
  /\ files = << >>
  /\ file_idx = 0
  /\ threads = << >>
  /\ spell_lock = 0
  /\ calls = << >>
  /\ app_custom_words = {}
  /\ gui \in {[pc |-> "mainloop", execute_button |-> "normal", task_queue |-> << >>,
               after |-> << >>, jira_client |-> j, worker |-> IdleWorker,
               download_dir_event |-> FALSE, download_dir_result |-> << >>] :
                j \in BOOLEAN}

GuiStep(g) ==
  /\ gui' = g
  /\ UNCHANGED <<lines, pc, i, loc, report, checker, spell_cache, custom_words,
                 hash_seed, reports, enabled_checks, output, files, file_idx, threads,
                 spell_lock, calls, app_custom_words>>

\* how many callbacks may wait in the main loop when the user clicks
MaxCallbacks == 2

\* lines 601 and 607: the command of the Execute button; a disabled button
\* does not call it
ClickExecute ==
  /\ gui.pc = "mainloop"
  /\ gui.execute_button = "normal"
  /\ gui.task_queue = << >>
  /\ Len(gui.after) < MaxCallbacks
  /\ GuiStep([gui EXCEPT !.task_queue = Append(@, "execute_action")])

\* lines 1429-1469, on the GUI thread
execute_action(g, action, keys, listed) ==
  LET disabled == [g EXCEPT !.execute_button = "disabled"]
      submit(task) == [disabled EXCEPT !.worker = [pc |-> "start", task |-> task]]
  IN  IF Strip(keys) = << >> /\ action \in NeedKeys
      THEN After(disabled, "normal")
      ELSE IF action = "download_feature_files" THEN submit("download_feature_files")
      ELSE IF action = "download_test_plan" THEN submit("get_test_plan_features")
      ELSE IF action = "run_checks_on_feature_files"
           THEN submit("run_checks_on_feature_files")
      ELSE IF action = "run_checks_on_test_plan" THEN submit("run_checks_on_test_plan")
      ELSE IF listed = << >> \/ listed[1] = << >>
           THEN After(disabled, "normal")
           ELSE submit("run_checks")

\* lines 1471-1487: process_queue takes the task and calls execute_action.
\* One task is in the executor at a time
ProcessQueue ==
  /\ gui.pc = "mainloop"
  /\ gui.task_queue # << >>
  /\ gui.worker = IdleWorker
  /\ \E action \in InternalActions, keys \in KeysInputs, listed \in FilesInputs :
       GuiStep(execute_action([gui EXCEPT !.task_queue = Tail(@)], action, keys, listed))

\* the main loop runs the oldest callback: the button set to "normal", or
\* set_download_dir (lines 1078-1081 and 1199-1202), where the user picks a
\* directory or cancels
RunCallback ==
  /\ gui.pc = "mainloop"
  /\ gui.after # << >>
  /\ LET rest == [gui EXCEPT !.after = Tail(@)]
     IN  IF Head(gui.after) = "normal"
         THEN GuiStep([rest EXCEPT !.execute_button = "normal"])
         ELSE \E result \in {<< >>, <<"d">>} :
                GuiStep([rest EXCEPT !.download_dir_result = result,
                                     !.download_dir_event = TRUE])

\* where the task goes when its download function returns
DownloadReturns(g, got) ==
  [g EXCEPT !.worker = IF Wrapped(g.worker.task)
                       THEN [@ EXCEPT !.pc = IF got THEN "checks" ELSE "finally"]
                       ELSE IdleWorker]

\* lines 1061-1083 and 1189-1204, in the executor's thread: the early
\* returns, then set_download_dir is scheduled on the GUI thread.
\* run_checks starts at its loop
WorkerStart ==
  /\ gui.worker.pc = "start"
  /\ IF gui.worker.task = "run_checks"
     THEN GuiStep([gui EXCEPT !.worker.pc = "checks"])
     ELSE IF ~gui.jira_client
          THEN GuiStep(DownloadReturns(After(gui, "normal"), FALSE))
          ELSE \E keys \in KeysInputs :
                 /\ Strip(keys) # << >>
                 /\ IF DownloadsIssues(gui.worker.task) /\ ~HasIssueKey(keys)
                    THEN GuiStep(DownloadReturns(After(gui, "normal"), FALSE))
                    ELSE GuiStep([After(gui, "set_download_dir") EXCEPT
                                    !.worker.pc = "wait",
                                    !.download_dir_event = FALSE,
                                    !.download_dir_result = << >>])

\* lines 1084-1091 and 1205-1211: download_dir_event.wait() returns when the
\* event is set; without a directory the download is cancelled
WorkerWait ==
  /\ gui.worker.pc = "wait"
  /\ gui.download_dir_event
  /\ IF gui.download_dir_result = << >>
     THEN GuiStep(DownloadReturns(After(gui, "normal"), FALSE))
     ELSE GuiStep([gui EXCEPT !.worker.pc = "download"])

\* lines 1093-1146 and 1213-1272: the downloads, with or without a file at
\* the end; every return schedules the button's "normal"
WorkerDownload ==
  /\ gui.worker.pc = "download"
  /\ \E got \in BOOLEAN : GuiStep(DownloadReturns(After(gui, "normal"), got))

\* lines 1274-1342: run_checks, returning or raising; called directly it is
\* the whole task, called from run_checks_on_... it is followed by finally
WorkerChecks ==
  /\ gui.worker.pc = "checks"
  /\ GuiStep([gui EXCEPT !.worker = IF Wrapped(@.task)
                                   THEN [@ EXCEPT !.pc = "finally"]
                                   ELSE IdleWorker])

\* lines 1386-1387 and 1411-1412: finally
WorkerFinally ==
  /\ gui.worker.pc = "finally"
  /\ GuiStep([After(gui, "normal") EXCEPT !.worker = IdleWorker])

\* lines 1489-1493: the window is closed; on_closing saves the cache and
\* calls executor.shutdown(wait=True) on the GUI thread
OnClosing ==
  /\ gui.pc = "mainloop"
  /\ GuiStep([gui EXCEPT !.pc = "shutdown"])

\* lines 1493-1495: shutdown returns when the executor's threads have ended;
\* then stop_loop and root.destroy
ShutdownReturns ==
  /\ gui.pc = "shutdown"
  /\ gui.worker = IdleWorker
  /\ GuiStep([gui EXCEPT !.pc = "destroyed"])

WorkerStep == WorkerStart \/ WorkerWait \/ WorkerDownload \/ WorkerChecks \/ WorkerFinally

NextGui ==
  \/ ClickExecute
  \/ ProcessQueue
  \/ RunCallback
  \/ WorkerStep
  \/ OnClosing
  \/ ShutdownReturns

\* the main loop runs its callbacks and timers, the executor's thread runs,
\* a blocked call returns when it can; the user need not do anything
SpecGui ==
  /\ InitGui
  /\ [][NextGui]_vars
  /\ WF_vars(ProcessQueue)
  /\ WF_vars(RunCallback)
  /\ WF_vars(WorkerStep)
  /\ WF_vars(ShutdownReturns)

(***************************************************************************)
(* C38: whenever the Execute button is disabled, it is eventually set back *)
(* to "normal" (or the window is closed first), whatever the action and    *)
(* whatever the outcome of the submitted task.                             *)
(***************************************************************************)
C38_ButtonEnabledAgain ==
  [](gui.execute_button = "disabled" =>
       <>(gui.execute_button = "normal" \/ gui.pc # "mainloop"))

(***************************************************************************)
(* C39: on_closing terminates: once the GUI thread has entered             *)
(* executor.shutdown(wait=True), it eventually reaches root.destroy(), in  *)
(* every state of the task in the executor.                                *)
(***************************************************************************)
C39_OnClosingTerminates == (gui.pc = "shutdown") ~> (gui.pc = "destroyed")

====
